---- MODULE Spec2Model ----
(***************************************************************************)
(* Aggregation and valuation engine of the crypto dashboard.               *)
(*                                                                         *)
(* Strings that the code parses (credentials, wallet address lists) are    *)
(* sequences of one-character strings.  A value that may be null is a      *)
(* sequence of length at most one: <<>> is null, <<s>> is the string s.    *)
(* Amounts are integers (a fixed-point reading of the code's numbers).     *)
(***************************************************************************)
EXTENDS Integers, Sequences, FiniteSets, TLC

VARIABLES
    cred,              \* localStorage: platform -> credential key -> string | null
    connectionStatus,  \* useSettingsStore.connectionStatus
    pc,                \* fetchAllPlatformData: "init" | "awaiting" | "done"
    task,              \* the promise of each platform's fetchPlatformData
    adapterCalls,      \* adapter functions invoked so far, per platform
    result,            \* the AggregatorResult once pc = "done"
    statusCalls,       \* the setConnectionStatus calls of fetchAllPlatformData
    priceCache,        \* coingecko: the module's priceCache, CachedPrice | null
    now,               \* Date.now()
    call,              \* the fetchPrices invocation of each caller
    allTrades,         \* the trade sort alone: the merged list handed to it
    sortPc,            \* the trade sort alone: "merged" | "sorted"
    nftTokens,         \* the NFT pipeline alone: the tokens the marketplace reports
    nftHoldings,       \* the NFT pipeline alone: the holdings list
    nftPc,             \* the NFT pipeline alone: "start" | "raw" | "enriched"
    nftEthPrice,       \* the NFT pipeline alone: the ETH price of the enrichment
    portfolio,         \* usePortfolioStore: holdings and their valuation
    exchange,          \* crypto.com alone: its signed requests and its promise
    idRuns,            \* trade ids alone: provider responses and the ids of each run
    signing,           \* signedRequest alone: the request and its signature
    summary,           \* fetchAccountSummary alone: the accounts and the holdings
    fiat,              \* coingecko: cadRateCache and the fetchUsdCadRate invocation
    solana,            \* the solana adapter alone: its config and its requests
    runs,              \* fetchAllPlatformData runs completed so far
    dash,              \* the dashboard: the loading flag and the refreshes in flight
    entries            \* useManualEntriesStore.entries

aggVars == <<cred, connectionStatus, pc, task, adapterCalls, result, statusCalls>>

priceVars == <<priceCache, now, call>>

sortVars == <<allTrades, sortPc>>

nftVars == <<nftTokens, nftHoldings, nftPc, nftEthPrice>>

\* The state of the parts that are exercised on their own.
auxVars == <<portfolio, exchange, idRuns, signing>>

\* The state of further parts that are exercised on their own.
extVars == <<summary, fiat, solana, runs, dash, entries>>

vars == <<aggVars, priceVars, sortVars, nftVars, auxVars, extVars>>

\* What the aggregator's steps leave alone.
nonAggVars == <<priceVars, sortVars, nftVars, auxVars, extVars>>

----------------------------------------------------------------------------
(* Bounds of the model.                                                    *)

\* At most this many platforms hold credentials in one run.
MaxConfigured == 2

----------------------------------------------------------------------------
(* Generic helpers.                                                        *)

Null == <<>>

Some(s) == <<s>>

\* JavaScript's !x for a string | null.
Falsy(c) == c = Null \/ c[1] = <<>>

SeqMax(a, b) == IF a >= b THEN a ELSE b

RECURSIVE SumSeq(_)
SumSeq(s) == IF s = <<>> THEN 0 ELSE Head(s) + SumSeq(Tail(s))

RECURSIVE Flatten(_)
Flatten(ss) == IF ss = <<>> THEN <<>> ELSE Head(ss) \o Flatten(Tail(ss))

MapSeq(F(_), s) == [i \in 1..Len(s) |-> F(s[i])]

----------------------------------------------------------------------------
(* parseAddresses.                                                         *)

Separators == {"\n", ","}

Whitespace == {" ", "\n"}

\* String.prototype.split(/[\n,]/): the segments between separators, empty ones kept.
RECURSIVE SplitAddr(_)
SplitAddr(s) ==
    IF s = <<>> THEN << <<>> >>
    ELSE LET rest == SplitAddr(Tail(s))
         IN  IF Head(s) \in Separators
             THEN << <<>> >> \o rest
             ELSE << <<Head(s)>> \o Head(rest) >> \o Tail(rest)

RECURSIVE TrimLeft(_)
TrimLeft(s) ==
    IF s # <<>> /\ Head(s) \in Whitespace THEN TrimLeft(Tail(s)) ELSE s

RECURSIVE TrimRight(_)
TrimRight(s) ==
    IF s # <<>> /\ s[Len(s)] \in Whitespace
    THEN TrimRight(SubSeq(s, 1, Len(s) - 1))
    ELSE s

\* String.prototype.trim.
Trim(s) == TrimRight(TrimLeft(s))

NonEmpty(s) == Len(s) > 0

\* parseAddresses without its .filter((s) => s.length > 0): empty segments stay.
parseAddressesKeepEmpty(raw) ==
    IF Falsy(raw) THEN <<>>
    ELSE MapSeq(Trim, SplitAddr(raw[1]))

parseAddresses(raw) ==
    IF Falsy(raw) THEN <<>>
    ELSE SelectSeq(MapSeq(Trim, SplitAddr(raw[1])), NonEmpty)

----------------------------------------------------------------------------
(* Platforms and credentials.                                              *)

\* The platforms array of fetchAllPlatformData, in its order.
platforms == <<"ethereum", "bitcoin", "solana", "crypto.com", "hyperliquid", "blur">>

PlatformSet == {platforms[i] : i \in 1..Len(platforms)}

\* Platforms whose wallet credential is a list of addresses fetched one by one.
SequentialPlatforms == {"ethereum", "solana"}

\* Platforms whose branch is one Promise.all over a holdings and a trades call.
PairPlatforms == {"crypto.com", "hyperliquid", "blur"}

CredKeys == {"walletAddress", "apiKey", "apiSecret", "heliusApiKey"}

getCredential(p, key) == cred[p][key]

NoCreds == [k \in CredKeys |-> Null]

\* Ways a credential is absent: null, the empty string, separators and blanks only.
AbsentKinds == {"null", "empty", "blank"}

BlankList == <<" ", "\n", ",", " ">>

AbsentCreds(p, kind) ==
    IF p = "crypto.com"
    THEN CASE kind = "null"  -> [NoCreds EXCEPT !["apiSecret"] = Some(<<"s">>)]
           [] kind = "empty" -> [NoCreds EXCEPT !["apiKey"] = Some(<<"k">>),
                                              !["apiSecret"] = Some(<<>>)]
           [] OTHER          -> NoCreds
    ELSE IF p \in PairPlatforms
    THEN CASE kind = "empty" -> [NoCreds EXCEPT !["walletAddress"] = Some(<<>>)]
           [] OTHER          -> NoCreds
    ELSE CASE kind = "null"  -> NoCreds
           [] kind = "empty" -> [NoCreds EXCEPT !["walletAddress"] = Some(<<>>)]
           [] OTHER          -> [NoCreds EXCEPT !["walletAddress"] = Some(BlankList)]

\* Wallet address lists a user may have saved: one address, or two.
WalletInputs == { <<"a">>, <<" ", "a", "\n", "b", ",", " ">> }

HeliusInputs == { Null, Some(<<"h">>) }

PresentCreds(p, wallet, helius) ==
    IF p = "crypto.com"
    THEN [NoCreds EXCEPT !["apiKey"] = Some(<<"k">>), !["apiSecret"] = Some(<<"s">>)]
    ELSE IF p \in PairPlatforms
    THEN [NoCreds EXCEPT !["walletAddress"] = Some(<<" ", "w">>)]
    ELSE IF p = "solana"
    THEN [NoCreds EXCEPT !["walletAddress"] = Some(wallet), !["heliusApiKey"] = helius]
    ELSE [NoCreds EXCEPT !["walletAddress"] = Some(wallet)]

\* computeInitialStatus: "connected" when a wallet or an API key is stored.
computeInitialStatus(c) ==
    [p \in PlatformSet |->
        IF ~Falsy(c[p]["walletAddress"]) \/ ~Falsy(c[p]["apiKey"])
        THEN "connected" ELSE "unconfigured"]

----------------------------------------------------------------------------
(* What the providers answer.  A successful adapter call for one wallet    *)
(* returns one holding and one trade; the wallet decides amount and date.  *)

Ratio(n, d) == [num |-> n, den |-> d]

\* "a" -> 1, "b" -> 2: distinct wallets hold distinct amounts.
BalanceOf(addr) == IF addr = <<"a">> THEN 1 ELSE 2

AssetOf(p) ==
    CASE p = "ethereum"    -> <<"ETH">>
      [] p = "bitcoin"     -> <<"BTC">>
      [] p = "solana"      -> <<"SOL">>
      [] p = "crypto.com"  -> <<"CRO">>
      [] p = "hyperliquid" -> <<"HYPE">>
      [] OTHER             -> <<"NFT">>

IdPrefix(p) ==
    CASE p = "ethereum"    -> "eth"
      [] p = "solana"      -> "sol"
      [] p = "crypto.com"  -> "cdc"
      [] p = "hyperliquid" -> "hl"
      [] OTHER             -> "blur"

IsoDate(y, m, d) == [y |-> y, m |-> m, d |-> d]

\* The timestamps of the providers' records, as toISOString renders them.  They are
\* neither in platform order nor distinct, so the merged list needs its sort.
TradeDateOf(p, addr) ==
    CASE p = "ethereum" /\ addr = <<"a">> -> IsoDate(2024, 1, 2)
      [] p = "ethereum"                  -> IsoDate(2024, 3, 1)
      [] p = "solana" /\ addr = <<"a">>   -> IsoDate(2024, 1, 2)
      [] p = "solana"                    -> IsoDate(2023, 12, 31)
      [] p = "crypto.com"                -> IsoDate(2024, 2, 1)
      [] p = "hyperliquid"               -> IsoDate(2024, 3, 1)
      [] OTHER                           -> IsoDate(2024, 1, 2)

Holding(p, amount, price) ==
    [asset |-> AssetOf(p), platform |-> p, amount |-> amount,
     currentPriceUsd |-> Ratio(price, 1), currentValueUsd |-> amount * price,
     change24hPercent |-> 0]

HoldingsOf(p, addr) == << Holding(p, BalanceOf(addr), 1) >>

TradesOf(p, addr) ==
    << [id |-> <<IdPrefix(p), addr>>, platform |-> p, date |-> TradeDateOf(p, addr)] >>

----------------------------------------------------------------------------
(* The NFT adapter and its enrichment.                                     *)

\* One collection of the grouping loop: insertion order is first-seen order.
RECURSIVE GroupTokens(_, _)
GroupTokens(tokens, cols) ==
    IF tokens = <<>> THEN cols
    ELSE LET t   == Head(tokens)
             hit == {i \in 1..Len(cols) : cols[i].id = t.collection}
             nxt == IF hit = {}
                    THEN Append(cols, [id |-> t.collection, count |-> t.qty,
                                       totalValueEth |-> t.floor * t.qty])
                    ELSE LET i == CHOOSE j \in hit : TRUE
                         IN  [cols EXCEPT ![i].count = @ + t.qty,
                                          ![i].totalValueEth = @ + t.floor * t.qty]
         IN  GroupTokens(Tail(tokens), nxt)

\* A holding whose USD value is filled with the ETH value instead of the placeholder 0.
NftHoldingValuedInEth(col) ==
    [asset |-> <<"NFT", col.id>>, platform |-> "blur", amount |-> col.count,
     currentPriceUsd |-> Ratio(0, 1), currentValueUsd |-> col.totalValueEth,
     change24hPercent |-> 0, ethValue |-> col.totalValueEth]

NftHolding(col) ==
    [asset |-> <<"NFT", col.id>>, platform |-> "blur", amount |-> col.count,
     currentPriceUsd |-> Ratio(0, 1), currentValueUsd |-> 0,
     change24hPercent |-> 0, ethValue |-> col.totalValueEth]

fetchNftHoldings(tokens) == MapSeq(NftHolding, GroupTokens(tokens, <<>>))

EnrichOne(h, ethPriceUsd) ==
    [h EXCEPT !.currentPriceUsd = Ratio(h.ethValue * ethPriceUsd, SeqMax(h.amount, 1)),
              !.currentValueUsd = h.ethValue * ethPriceUsd]

enrichBlurHoldingsWithEthPrice(holdings, ethPriceUsd) ==
    [i \in 1..Len(holdings) |-> EnrichOne(holdings[i], ethPriceUsd)]

Token(c, floor, qty) == [collection |-> c, floor |-> floor, qty |-> qty]

\* The tokens the marketplace reports for the configured blur wallet.
BlurTokens == << Token("punks", 3, 1), Token("apes", 0, 2), Token("punks", 3, 2) >>

----------------------------------------------------------------------------
(* The trade sort of fetchAllPlatformData.                                 *)

\* new Date(iso).getTime(), up to an order-preserving change of unit.
getTime(date) == (date.y * 12 + date.m) * 31 + date.d

\* The comparator with its operands exchanged: oldest first.
compareTradesAscending(a, b) == getTime(a.date) - getTime(b.date)

\* The comparator handed to Array.prototype.sort.
compareTrades(a, b) == getTime(b.date) - getTime(a.date)

\* Array.prototype.sort is stable: x goes after every element that does not
\* have to follow it.
RECURSIVE InsertTrade(_, _)
InsertTrade(x, s) ==
    IF s = <<>> THEN <<x>>
    ELSE IF compareTrades(Head(s), x) <= 0
         THEN <<Head(s)>> \o InsertTrade(x, Tail(s))
         ELSE <<x>> \o s

RECURSIVE SortTrades(_)
SortTrades(s) ==
    IF s = <<>> THEN <<>>
    ELSE InsertTrade(s[Len(s)], SortTrades(SubSeq(s, 1, Len(s) - 1)))

----------------------------------------------------------------------------
(* fetchPlatformData: one promise per platform.                            *)
(*                                                                         *)
(* A task record: st is the promise's state; idx the address being fetched *)
(* (ethereum, solana); h and t the holdings and the trades call of the     *)
(* Promise.all in progress; outcomes how the calls of the addresses done   *)
(* so far ended; bal the balance requests of bitcoin; px the price lookup  *)
(* (bitcoin, blur); raw the NFT holdings before enrichment.                *)

Settled == {"fulfilled", "rejected"}

IdleTask ==
    [st |-> "idle", idx |-> 0, h |-> "none", t |-> "none", outcomes |-> <<>>,
     bal |-> <<>>, px |-> "none", pxCalls |-> 0, raw |-> <<>>, holdings |-> <<>>,
     trades |-> <<>>, reason |-> Null]

Addresses(p) == parseAddresses(getCredential(p, "walletAddress"))

\* return { holdings, trades }
Fulfil(tk, holdings, trades) ==
    [tk EXCEPT !.st = "fulfilled", !.holdings = holdings, !.trades = trades]

\* throw new Error(message), uncaught inside fetchPlatformData
Reject(tk, message) == [tk EXCEPT !.st = "rejected", !.reason = Some(message)]

ErrorMessage(p, kind) ==
    CASE kind = "px"          -> "CoinGecko API error: 429"
      [] p = "crypto.com"     -> "Crypto.com API HTTP error: 500"
      [] p = "hyperliquid"    -> "Hyperliquid API error: 500"
      [] OTHER                -> "Reservoir API error: 500"

\* One iteration of the address loop up to its await: both adapters are called;
\* fetchSolanaTrades answers [] without a request when no Helius key is stored.
StartAddress(p, tk, i) ==
    [tk EXCEPT !.st = "pending", !.idx = i, !.h = "pending",
               !.t = IF p = "solana" /\ Falsy(getCredential(p, "heliusApiKey"))
                     THEN "skip" ELSE "pending"]

\* fetchPlatformData(p) from its call to its first provider request, or to its
\* return when the platform is not configured.
Launch(p) ==
    CASE p = "crypto.com" ->
           IF Falsy(getCredential(p, "apiKey")) \/ Falsy(getCredential(p, "apiSecret"))
           THEN Fulfil(IdleTask, <<>>, <<>>)
           ELSE [IdleTask EXCEPT !.st = "pending", !.h = "pending", !.t = "pending"]
      [] p \in {"hyperliquid", "blur"} ->
           IF Falsy(getCredential(p, "walletAddress"))
           THEN Fulfil(IdleTask, <<>>, <<>>)
           ELSE [IdleTask EXCEPT !.st = "pending", !.h = "pending", !.t = "pending"]
      [] p \in SequentialPlatforms ->
           IF Len(Addresses(p)) = 0
           THEN Fulfil(IdleTask, <<>>, <<>>)
           ELSE StartAddress(p, IdleTask, 1)
      [] OTHER ->
           IF Len(Addresses(p)) = 0
           THEN Fulfil(IdleTask, <<>>, <<>>)
           ELSE [IdleTask EXCEPT !.st = "pending",
                                 !.bal = [i \in 1..Len(Addresses(p)) |-> "pending"]]

\* Adapter functions called by Launch(p).
LaunchCalls(p) ==
    IF Launch(p).st # "pending" THEN 0 ELSE IF p = "bitcoin" THEN 1 ELSE 2

\* The address loop without the per-call .catch(() => []): a failed call of one
\* address rejects the whole platform.
AfterAddressNoCatch(p, tk) ==
    IF tk.h = "fail" \/ tk.t = "fail"
    THEN Reject(tk, "Etherscan API error")
    ELSE LET addr == Addresses(p)[tk.idx]
             acc  == [tk EXCEPT
                        !.outcomes = Append(@, [h |-> tk.h, t |-> tk.t]),
                        !.holdings = @ \o HoldingsOf(p, addr),
                        !.trades   = @ \o (IF tk.t = "ok" THEN TradesOf(p, addr) ELSE <<>>)]
         IN  IF tk.idx < Len(Addresses(p))
             THEN StartAddress(p, acc, tk.idx + 1)
             ELSE [acc EXCEPT !.st = "fulfilled", !.h = "none", !.t = "none"]

\* The address loop after both calls of address idx have settled: a failed call was
\* replaced by [] (.catch(() => [])), the results are pushed, the loop goes on.
AfterAddress(p, tk) ==
    LET addr == Addresses(p)[tk.idx]
        acc  == [tk EXCEPT
                   !.outcomes = Append(@, [h |-> tk.h, t |-> tk.t]),
                   !.holdings = @ \o (IF tk.h = "ok" THEN HoldingsOf(p, addr) ELSE <<>>),
                   !.trades   = @ \o (IF tk.t = "ok" THEN TradesOf(p, addr) ELSE <<>>)]
    IN  IF tk.idx < Len(Addresses(p))
        THEN StartAddress(p, acc, tk.idx + 1)
        ELSE [acc EXCEPT !.st = "fulfilled", !.h = "none", !.t = "none"]

\* The account a single-account adapter is configured with (walletAddress.trim()).
AccountOf(p) ==
    IF p = "crypto.com" THEN getCredential(p, "apiKey")[1]
    ELSE Trim(getCredential(p, "walletAddress")[1])

\* A blur branch that looks the price up as soon as the holdings have arrived.
AfterPairPriceEarly(p, tk, kind) ==
    IF tk[kind] = "fail" THEN Reject(tk, ErrorMessage(p, kind))
    ELSE IF p = "blur" /\ tk.h = "ok" /\ tk.px = "none"
    THEN [tk EXCEPT !.raw = fetchNftHoldings(BlurTokens),
                    !.trades = TradesOf(p, AccountOf(p)),
                    !.px = "pending", !.pxCalls = @ + 1]
    ELSE IF tk.h = "ok" /\ tk.t = "ok"
    THEN Fulfil(tk, HoldingsOf(p, AccountOf(p)), TradesOf(p, AccountOf(p)))
    ELSE tk

\* Promise.all over the holdings and the trades call of crypto.com, hyperliquid and
\* blur: the first rejection rejects the branch; two results end it, or, for blur,
\* lead to the price lookup.
AfterPair(p, tk, kind) ==
    IF tk[kind] = "fail" THEN Reject(tk, ErrorMessage(p, kind))
    ELSE IF tk.h = "ok" /\ tk.t = "ok"
    THEN IF p = "blur"
         THEN [tk EXCEPT !.raw = fetchNftHoldings(BlurTokens),
                         !.trades = TradesOf(p, AccountOf(p)),
                         !.px = "pending", !.pxCalls = @ + 1]
         ELSE Fulfil(tk, HoldingsOf(p, AccountOf(p)), TradesOf(p, AccountOf(p)))
    ELSE tk

\* The sum of the balances fetchBitcoinHoldings collected; a failed address counts 0.
TotalBtc(tk) ==
    SumSeq([i \in 1..Len(tk.bal) |->
              IF tk.bal[i] = "ok" THEN BalanceOf(Addresses("bitcoin")[i]) ELSE 0])

\* fetchBitcoinHoldings after Promise.all over the addresses.
AfterBalances(tk) ==
    IF \E i \in 1..Len(tk.bal) : tk.bal[i] = "pending" THEN tk
    ELSE IF TotalBtc(tk) <= 0 THEN Fulfil(tk, <<>>, <<>>)
    ELSE [tk EXCEPT !.px = "pending", !.pxCalls = @ + 1]

\* The continuation of a price lookup that answered usd.
AfterPrice(p, tk, usd) ==
    IF p = "blur"
    THEN Fulfil([tk EXCEPT !.px = "ok"],
                enrichBlurHoldingsWithEthPrice(tk.raw, usd), tk.trades)
    ELSE Fulfil([tk EXCEPT !.px = "ok"], <<Holding(p, TotalBtc(tk), usd)>>, <<>>)

\* Prices the oracle may quote; 0 is also what `?.usd ?? 0` yields for a missing id.
PriceQuotes == {0, 2}

----------------------------------------------------------------------------
(* fetchAllPlatformData.                                                   *)

\* Promise.all in the place of Promise.allSettled: the first rejection rejects.
allSettledAsPromiseAll(tk) ==
    IF \E p \in PlatformSet : tk[p].st = "rejected" THEN "rejected"
    ELSE IF \A p \in PlatformSet : tk[p].st = "fulfilled" THEN "fulfilled"
    ELSE "pending"

\* Promise.allSettled over the platform tasks: fulfilled once every task has
\* settled, never rejected.
allSettled(tk) ==
    IF \A p \in PlatformSet : tk[p].st \in Settled THEN "fulfilled" ELSE "pending"

\* result.reason?.message ?? "Unknown error"
ErrorText(reason) == IF reason = Null THEN "Unknown error" ELSE reason[1]

\* The loop over results: results[i] belongs to platforms[i].
\* A merge loop that stops at the first rejected result.
MergedHoldingsUntilRejected(tk) ==
    Flatten([i \in 1..Len(platforms) |->
               IF \A j \in 1..i : tk[platforms[j]].st = "fulfilled"
               THEN tk[platforms[i]].holdings ELSE <<>>])

MergedHoldings(tk) ==
    Flatten([i \in 1..Len(platforms) |->
               IF tk[platforms[i]].st = "fulfilled"
               THEN tk[platforms[i]].holdings ELSE <<>>])

\* A merge loop that pushes the trades a task holds whatever its status.
MergedTradesIgnoringStatus(tk) ==
    Flatten([i \in 1..Len(platforms) |-> tk[platforms[i]].trades])

MergedTrades(tk) ==
    Flatten([i \in 1..Len(platforms) |->
               IF tk[platforms[i]].st = "fulfilled"
               THEN tk[platforms[i]].trades ELSE <<>>])

CollectedErrors(tk) ==
    Flatten([i \in 1..Len(platforms) |->
               IF tk[platforms[i]].st = "rejected"
               THEN << [platform |-> platforms[i],
                        error |-> ErrorText(tk[platforms[i]].reason)] >>
               ELSE <<>>])

\* A loop that marks every fulfilled platform connected, with data or without.
StatusCallsConnectedOnFulfil(tk) ==
    [i \in 1..Len(platforms) |->
        [platform |-> platforms[i],
         status   |-> IF tk[platforms[i]].st = "rejected" THEN "error" ELSE "connected"]]

\* A loop over results that marks an empty success "unconfigured".
StatusCallsResettingOnEmpty(tk) ==
    [i \in 1..Len(platforms) |->
        [platform |-> platforms[i],
         status   |-> IF tk[platforms[i]].st = "rejected" THEN "error"
                      ELSE IF Len(tk[platforms[i]].holdings) > 0
                              \/ Len(tk[platforms[i]].trades) > 0
                      THEN "connected" ELSE "unconfigured"]]

\* The setConnectionStatus calls of the loop over results, in their order.
StatusCalls(tk) ==
    Flatten([i \in 1..Len(platforms) |->
               LET p == platforms[i]
               IN  IF tk[p].st = "rejected"
                   THEN << [platform |-> p, status |-> "error"] >>
                   ELSE IF Len(tk[p].holdings) > 0 \/ Len(tk[p].trades) > 0
                   THEN << [platform |-> p, status |-> "connected"] >>
                   ELSE <<>>])

\* setConnectionStatus: { ...state.connectionStatus, [platform]: status }
RECURSIVE ApplyStatusCalls(_, _)
ApplyStatusCalls(status, calls) ==
    IF calls = <<>> THEN status
    ELSE ApplyStatusCalls([status EXCEPT ![Head(calls).platform] = Head(calls).status],
                          Tail(calls))

\* The connection statuses after the loop over results.
StatusAfter(tk, status) == ApplyStatusCalls(status, StatusCalls(tk))

NoResult == [holdings |-> <<>>, trades |-> <<>>, errors |-> <<>>]

\* Credential stores of a run: the platforms in S are configured, the address-list
\* platforms among them with the same list.
CredentialStore(S, kind, wallet, helius) ==
    [p \in PlatformSet |->
        IF p \in S THEN PresentCreds(p, wallet, helius) ELSE AbsentCreds(p, kind)]

InitAgg ==
    /\ \E S \in SUBSET PlatformSet, kind \in AbsentKinds,
          wallet \in WalletInputs, helius \in HeliusInputs :
            /\ Cardinality(S) <= MaxConfigured
            /\ cred = CredentialStore(S, kind, wallet, helius)
    /\ connectionStatus = computeInitialStatus(cred)
    /\ pc = "init"
    /\ task = [p \in PlatformSet |-> IdleTask]
    /\ adapterCalls = [p \in PlatformSet |-> 0]
    /\ result = NoResult
    /\ statusCalls = <<>>

\* The call of fetchAllPlatformData up to its await: platforms.map starts every
\* task, and each task runs to its first provider request (getCredential reads
\* localStorage, so its awaits resume before any network response is delivered).
Start ==
    /\ pc = "init"
    /\ pc' = "awaiting"
    /\ task' = [p \in PlatformSet |-> Launch(p)]
    /\ adapterCalls' = [p \in PlatformSet |-> LaunchCalls(p)]
    /\ UNCHANGED <<cred, connectionStatus, result, statusCalls>>
    /\ UNCHANGED nonAggVars

\* The holdings (kind = "h") or trades (kind = "t") call of crypto.com, hyperliquid
\* or blur settles.
SettleCall(p, kind, ok) ==
    /\ pc = "awaiting"
    /\ p \in PairPlatforms
    /\ task[p].st = "pending"
    /\ task[p][kind] = "pending"
    /\ task' = [task EXCEPT ![p] =
                  AfterPair(p, [@ EXCEPT ![kind] = IF ok THEN "ok" ELSE "fail"], kind)]
    /\ UNCHANGED <<cred, connectionStatus, pc, adapterCalls, result, statusCalls>>
    /\ UNCHANGED nonAggVars

\* Both calls of the address that ethereum or solana is fetching have settled (each
\* resolves through its own .catch, so the loop resumes only after the second one),
\* and the loop starts the next address or returns.
SettleAddress(p, hok, tok) ==
    /\ pc = "awaiting"
    /\ p \in SequentialPlatforms
    /\ task[p].st = "pending"
    /\ task[p].h = "pending"
    /\ task[p].t = "skip" => tok
    /\ LET tk   == [task[p] EXCEPT
                      !.h = IF hok THEN "ok" ELSE "fail",
                      !.t = IF @ = "skip" THEN @ ELSE IF tok THEN "ok" ELSE "fail"]
           next == AfterAddress(p, tk)
       IN  /\ task' = [task EXCEPT ![p] = next]
           /\ adapterCalls' =
                [adapterCalls EXCEPT ![p] = IF next.st = "pending" THEN @ + 2 ELSE @]
    /\ UNCHANGED <<cred, connectionStatus, pc, result, statusCalls>>
    /\ UNCHANGED nonAggVars

\* The balance request of the i-th bitcoin address settles.
SettleBalance(i, ok) ==
    /\ pc = "awaiting"
    /\ task["bitcoin"].st = "pending"
    /\ i \in 1..Len(task["bitcoin"].bal)
    /\ task["bitcoin"].bal[i] = "pending"
    /\ task["bitcoin"].px = "none"
    /\ task' = [task EXCEPT !["bitcoin"] =
                  AfterBalances([@ EXCEPT !.bal[i] = IF ok THEN "ok" ELSE "fail"])]
    /\ UNCHANGED <<cred, connectionStatus, pc, adapterCalls, result, statusCalls>>
    /\ UNCHANGED nonAggVars

\* The price lookup of bitcoin or blur answers usd.
PriceAnswers(p, usd) ==
    /\ pc = "awaiting"
    /\ task[p].st = "pending"
    /\ task[p].px = "pending"
    /\ task' = [task EXCEPT ![p] = AfterPrice(p, @, usd)]
    /\ UNCHANGED <<cred, connectionStatus, pc, adapterCalls, result, statusCalls>>
    /\ UNCHANGED nonAggVars

\* The price lookup of bitcoin or blur fails: fetchPrices throws.
PriceFails(p) ==
    /\ pc = "awaiting"
    /\ task[p].st = "pending"
    /\ task[p].px = "pending"
    /\ task' = [task EXCEPT ![p] = Reject([@ EXCEPT !.px = "fail"], ErrorMessage(p, "px"))]
    /\ UNCHANGED <<cred, connectionStatus, pc, adapterCalls, result, statusCalls>>
    /\ UNCHANGED nonAggVars

\* A provider request of platform p never answers: nothing cancels it or times it
\* out, so the branch of p stays suspended at its await for good.
Hang(p) ==
    /\ pc = "awaiting"
    /\ task[p].st = "pending"
    /\ task' = [task EXCEPT ![p].st = "hung"]
    /\ UNCHANGED <<cred, connectionStatus, pc, adapterCalls, result, statusCalls>>
    /\ UNCHANGED nonAggVars

\* fetchAllPlatformData is called again after a run has returned: the settings
\* store, its connection statuses included, is as the earlier run left it.
Rerun ==
    /\ pc = "done"
    /\ runs = 0
    /\ runs' = 1
    /\ pc' = "init"
    /\ task' = [p \in PlatformSet |-> IdleTask]
    /\ adapterCalls' = [p \in PlatformSet |-> 0]
    /\ result' = NoResult
    /\ statusCalls' = <<>>
    /\ UNCHANGED <<cred, connectionStatus>>
    /\ UNCHANGED <<priceVars, sortVars, nftVars, auxVars>>
    /\ UNCHANGED <<summary, fiat, solana, dash, entries>>

\* fetchAllPlatformData from the end of its await to its return.
Collect ==
    /\ pc = "awaiting"
    /\ allSettled(task) # "pending"
    /\ IF allSettled(task) = "rejected"
       THEN /\ pc' = "rejected"
            /\ UNCHANGED <<connectionStatus, result, statusCalls>>
       ELSE /\ pc' = "done"
            /\ statusCalls' = StatusCalls(task)
            /\ connectionStatus' = StatusAfter(task, connectionStatus)
            /\ result' = [holdings |-> MergedHoldings(task),
                          trades   |-> SortTrades(MergedTrades(task)),
                          errors   |-> CollectedErrors(task)]
    /\ UNCHANGED <<cred, task, adapterCalls>>
    /\ UNCHANGED nonAggVars
----------------------------------------------------------------------------
(* The price oracle: fetchPrices and its cache.                            *)

CACHE_TTL_MS == 300000

\* The clock advances in steps of half the TTL, up to MaxTicks steps.
ClockStepMs == CACHE_TTL_MS \div 2

MaxTicks == 2

CoinIds == {"bitcoin", "ethereum", "solana"}

\* Concurrent callers of fetchPrices (adapters of different platforms).
Callers == {"c1", "c2"}

\* What the provider quotes for id at time t: the market moves with time.
QuoteAt(id, t) == [usd |-> 100 + t \div ClockStepMs, usd_24h_change |-> 0]

NoPrices == [id \in {} |-> QuoteAt(id, 0)]

\* priceCache?.prices ?? {}
CachePrices(cache) == IF cache = Null THEN NoPrices ELSE cache[1].prices

\* { ...a, ...b }
Spread(a, b) ==
    [id \in DOMAIN a \cup DOMAIN b |-> IF id \in DOMAIN b THEN b[id] ELSE a[id]]

\* A cache check whose age test is turned round: only an expired cache is used.
CacheHitWhenExpired(cache, t, coinIds) ==
    /\ cache # Null
    /\ t - cache[1].timestamp >= CACHE_TTL_MS
    /\ \A id \in coinIds : id \in DOMAIN cache[1].prices

\* The cache check at the head of fetchPrices.
CacheHit(cache, t, coinIds) ==
    /\ cache # Null
    /\ t - cache[1].timestamp < CACHE_TTL_MS
    /\ \A id \in coinIds : id \in DOMAIN cache[1].prices

\* A cache update that spreads the cache over the response: cached quotes win.
UpdateCacheKeepCached(cache, prices, t) ==
    Some([prices |-> Spread(prices, CachePrices(cache)), timestamp |-> t])

\* A cache update that replaces the cache by the response.
UpdateCacheOverwrite(cache, prices, t) ==
    Some([prices |-> prices, timestamp |-> t])

\* The cache update at the end of fetchPrices.
UpdateCache(cache, prices, t) ==
    Some([prices |-> Spread(CachePrices(cache), prices), timestamp |-> t])

\* One invocation: ids the argument, remote the requests it has issued, ret the map
\* it returned.
IdleCall == [st |-> "idle", ids |-> {}, remote |-> 0, ret |-> NoPrices]

InitPrice ==
    /\ priceCache = Null
    /\ now = 0
    /\ call = [c \in Callers |-> IdleCall]

\* Caller c invokes fetchPrices(coinIds): a cache hit returns at once, anything else
\* issues the remote request and suspends.
CallFetchPrices(c, coinIds) ==
    /\ call[c].st # "fetching"
    /\ call' = [call EXCEPT ![c] =
                  IF CacheHit(priceCache, now, coinIds)
                  THEN [st |-> "returned", ids |-> coinIds, remote |-> 0,
                        ret |-> priceCache[1].prices]
                  ELSE [st |-> "fetching", ids |-> coinIds, remote |-> 1,
                        ret |-> NoPrices]]
    /\ UNCHANGED <<priceCache, now>>
    /\ UNCHANGED <<aggVars, sortVars, nftVars, auxVars, extVars>>

\* The provider answers c's request: the response is normalised, merged into the
\* cache as it is now, and returned.
RemoteAnswers(c) ==
    /\ call[c].st = "fetching"
    /\ LET prices == [id \in call[c].ids |-> QuoteAt(id, now)]
       IN  /\ priceCache' = UpdateCache(priceCache, prices, now)
           /\ call' = [call EXCEPT ![c].st = "returned", ![c].ret = prices]
    /\ UNCHANGED now
    /\ UNCHANGED <<aggVars, sortVars, nftVars, auxVars, extVars>>

\* A failure that also drops the cache.
RemoteFailsClearingCache(c) ==
    /\ call[c].st = "fetching"
    /\ call' = [call EXCEPT ![c].st = "threw"]
    /\ priceCache' = Null
    /\ UNCHANGED now
    /\ UNCHANGED <<aggVars, sortVars, nftVars, auxVars, extVars>>

\* The provider answers with a non-success status: fetchPrices throws.
RemoteFails(c) ==
    /\ call[c].st = "fetching"
    /\ call' = [call EXCEPT ![c].st = "threw"]
    /\ UNCHANGED <<priceCache, now>>
    /\ UNCHANGED <<aggVars, sortVars, nftVars, auxVars, extVars>>

\* Time passes.
Tick ==
    /\ now < MaxTicks * ClockStepMs
    /\ now' = now + ClockStepMs
    /\ UNCHANGED <<priceCache, call>>
    /\ UNCHANGED <<aggVars, sortVars, nftVars, auxVars>>
    /\ UNCHANGED <<summary, fiat, solana, runs, dash, entries>>

----------------------------------------------------------------------------
(* The trade sort on its own, over every merged list up to a length.       *)

MaxTrades == 4

SortDates == {IsoDate(2023, 12, 31), IsoDate(2024, 1, 2), IsoDate(2024, 3, 1)}

\* A merged list: the i-th record carries i in its id.
TradeList(dates) ==
    [i \in 1..Len(dates) |->
        [id |-> <<"eth", <<i>> >>, platform |-> "ethereum", date |-> dates[i]]]

InitSort ==
    /\ \E n \in 0..MaxTrades : \E dates \in [1..n -> SortDates] :
          allTrades = TradeList(dates)
    /\ sortPc = "merged"

\* allTrades.sort(...)
SortMerged ==
    /\ sortPc = "merged"
    /\ allTrades' = SortTrades(allTrades)
    /\ sortPc' = "sorted"
    /\ UNCHANGED <<aggVars, priceVars, nftVars, auxVars, extVars>>

----------------------------------------------------------------------------
(* The NFT pipeline on its own, over every token list up to a length.      *)

MaxTokens == 2

TokenSet == {Token(c, floor, qty) : c \in {"punks", "apes"}, floor \in {0, 3}, qty \in {1, 2}}

InitNft ==
    /\ \E n \in 0..MaxTokens : nftTokens \in [1..n -> TokenSet]
    /\ nftHoldings = <<>>
    /\ nftPc = "start"
    /\ nftEthPrice = 0

\* fetchBlurHoldings resolves.
FetchNft ==
    /\ nftPc = "start"
    /\ nftHoldings' = fetchNftHoldings(nftTokens)
    /\ nftPc' = "raw"
    /\ UNCHANGED <<nftTokens, nftEthPrice>>
    /\ UNCHANGED <<aggVars, priceVars, sortVars, auxVars, extVars>>

\* The aggregator's second phase with the ETH price usd.
EnrichNft(usd) ==
    /\ nftPc = "raw"
    /\ nftHoldings' = enrichBlurHoldingsWithEthPrice(nftHoldings, usd)
    /\ nftPc' = "enriched"
    /\ nftEthPrice' = usd
    /\ UNCHANGED nftTokens
    /\ UNCHANGED <<aggVars, priceVars, sortVars, auxVars, extVars>>

----------------------------------------------------------------------------
(* JavaScript numbers as far as the valuation needs them: an exact         *)
(* fraction, an infinity, or NaN.                                          *)

RECURSIVE Gcd(_, _)
Gcd(a, b) == IF b = 0 THEN a ELSE Gcd(b, a % b)

Abs(n) == IF n < 0 THEN -n ELSE n

Sign(n) == IF n < 0 THEN -1 ELSE 1

\* The fraction n/d (d # 0) in lowest terms with a positive denominator.
Fin(n, d) ==
    LET g == Gcd(Abs(n), Abs(d))
    IN  [k |-> "fin", n |-> (Sign(d) * n) \div g, d |-> Abs(d) \div g]

Inf(sgn) == [k |-> "inf", n |-> sgn, d |-> 0]

NaN == [k |-> "nan", n |-> 0, d |-> 0]

Num(n) == Fin(n, 1)

IsFinite(a) == a.k = "fin"

\* a + b
NumAdd(a, b) ==
    CASE a.k = "nan" \/ b.k = "nan" -> NaN
      [] a.k = "inf" /\ b.k = "inf" -> IF a.n = b.n THEN a ELSE NaN
      [] a.k = "inf" -> a
      [] b.k = "inf" -> b
      [] OTHER -> Fin(a.n * b.d + b.n * a.d, a.d * b.d)

\* -a
NumNeg(a) == IF a.k = "nan" THEN NaN ELSE [a EXCEPT !.n = -a.n]

\* a - b
NumSub(a, b) == NumAdd(a, NumNeg(b))

\* a * b
NumMul(a, b) ==
    CASE a.k = "nan" \/ b.k = "nan" -> NaN
      [] a.k = "inf" \/ b.k = "inf" ->
           IF a.n = 0 \/ b.n = 0 THEN NaN ELSE Inf(Sign(a.n) * Sign(b.n))
      [] OTHER -> Fin(a.n * b.n, a.d * b.d)

\* a / b, the zero divisor being +0
NumDiv(a, b) ==
    CASE a.k = "nan" \/ b.k = "nan" -> NaN
      [] a.k = "inf" /\ b.k = "inf" -> NaN
      [] a.k = "inf" -> Inf(a.n * (IF b.n < 0 THEN -1 ELSE 1))
      [] b.k = "inf" -> Num(0)
      [] b.n = 0 -> IF a.n = 0 THEN NaN ELSE Inf(Sign(a.n))
      [] OTHER -> Fin(a.n * b.d, a.d * b.n)

\* a > 0
NumGt0(a) == a.k # "nan" /\ a.n > 0

----------------------------------------------------------------------------
(* usePortfolioStore.setHoldings: the valuation of a holdings list.        *)

MaxHoldings == 2

\* holdings.reduce((sum, h) => sum + F(h), 0)
RECURSIVE ReduceSum(_, _, _)
ReduceSum(F(_), s, sum) ==
    IF s = <<>> THEN sum ELSE ReduceSum(F, Tail(s), NumAdd(sum, F(Head(s))))

ValueOf(h) == Num(h.currentValueUsd)

\* The prior value taken as the value less the change: v * (1 - c / 100).
PrevValueOfSubtracted(h) ==
    NumMul(Num(h.currentValueUsd),
           NumSub(Num(1), NumDiv(Num(h.change24hPercent), Num(100))))

\* h.currentValueUsd / (1 + h.change24hPercent / 100)
PrevValueOf(h) ==
    NumDiv(Num(h.currentValueUsd),
           NumAdd(Num(1), NumDiv(Num(h.change24hPercent), Num(100))))

\* The percentage without the test of its denominator.
PercentOfUnguarded(change24hUsd, prevTotal) ==
    NumMul(NumDiv(change24hUsd, prevTotal), Num(100))

\* prevTotal > 0 ? (change24hUsd / prevTotal) * 100 : 0
PercentOf(change24hUsd, prevTotal) ==
    IF NumGt0(prevTotal)
    THEN NumMul(NumDiv(change24hUsd, prevTotal), Num(100))
    ELSE Num(0)

\* The store after setHoldings(holdings).
setHoldings(holdings) ==
    LET totalValueUsd == ReduceSum(ValueOf, holdings, Num(0))
        prevTotal     == ReduceSum(PrevValueOf, holdings, Num(0))
        change24hUsd  == NumSub(totalValueUsd, prevTotal)
    IN  [holdings         |-> holdings,
         totalValueUsd    |-> totalValueUsd,
         change24hUsd     |-> change24hUsd,
         change24hPercent |-> PercentOf(change24hUsd, prevTotal),
         lastRefreshed    |-> Some("now")]

\* Values and 24h changes the adapters report: coin prices lose at most all of
\* their value, a leveraged position's return on equity can be below -100 %.
HoldingValues == {0, 300, 1000}

HoldingChanges == {-200, -100, 0, 25}

ValuedHoldings ==
    {[currentValueUsd |-> v, change24hPercent |-> c] : v \in HoldingValues, c \in HoldingChanges}

\* The store as created.
InitPortfolio ==
    portfolio = [holdings |-> <<>>, totalValueUsd |-> Num(0), change24hUsd |-> Num(0),
                 change24hPercent |-> Num(0), lastRefreshed |-> Null]

\* A refresh hands a holdings list to the store.  setHoldings overwrites every
\* field it computes, so the first refresh of a behaviour shows all there is.
SetHoldings(holdings) ==
    /\ portfolio.lastRefreshed = Null
    /\ portfolio' = setHoldings(holdings)
    /\ UNCHANGED <<aggVars, priceVars, sortVars, nftVars, exchange, idRuns, signing,
                   extVars>>

----------------------------------------------------------------------------
(* The crypto.com adapters on their own: four signed requests.             *)

SignedMethods ==
    {"private/get-account-summary", "private/get-order-history",
     "private/get-deposit-list", "private/get-withdrawal-list"}

\* Methods whose signedRequest promise carries a .catch in fetchDepositWithdrawals.
CaughtMethods == {"private/get-deposit-list", "private/get-withdrawal-list"}

\* What the exchange answers: HTTP success with code 0, a non-success HTTP status,
\* or HTTP success with a non-zero code.
SignedResponses == {"ok", "http", "code"}

\* The error signedRequest throws for a response, null when it returns data.result.
SignedRequestError(response) ==
    CASE response = "http" -> Some("Crypto.com API HTTP error: 500")
      [] response = "code" -> Some("Crypto.com API error: 10002 - UNAUTHORIZED")
      [] OTHER             -> Null

\* The promise of fetchPlatformData("crypto.com") after the response to method has
\* arrived: the Promise.all chain rejects with the first error that no .catch
\* takes, and fulfils once all four requests are answered.
ExchangeAfter(ex, method) ==
    LET err == SignedRequestError(ex.resp[method])
    IN  IF ex.st # "pending" THEN ex
        ELSE IF err # Null /\ method \notin CaughtMethods
        THEN [ex EXCEPT !.st = "rejected", !.reason = err]
        ELSE IF \A m \in SignedMethods : ex.resp[m] # "pending"
        THEN [ex EXCEPT !.st = "fulfilled"]
        ELSE ex

NoExchange ==
    [resp |-> [m \in SignedMethods |-> "none"], st |-> "idle", reason |-> Null,
     errors |-> <<>>, collected |-> FALSE]

\* fetchPlatformData("crypto.com") with both keys stored: the four requests go out.
ExchangeStart ==
    /\ exchange.st = "idle"
    /\ exchange' = [exchange EXCEPT !.st = "pending",
                                    !.resp = [m \in SignedMethods |-> "pending"]]
    /\ UNCHANGED <<aggVars, priceVars, sortVars, nftVars, portfolio, idRuns, signing,
                   extVars>>

\* The exchange answers one request.
ExchangeResponds(method, response) ==
    /\ exchange.resp[method] = "pending"
    /\ exchange' = ExchangeAfter([exchange EXCEPT !.resp[method] = response], method)
    /\ UNCHANGED <<aggVars, priceVars, sortVars, nftVars, portfolio, idRuns, signing,
                   extVars>>

\* The aggregator's loop over results reaches crypto.com.
ExchangeCollect ==
    /\ exchange.st \in Settled
    /\ ~exchange.collected
    /\ exchange' = [exchange EXCEPT
                      !.collected = TRUE,
                      !.errors = IF exchange.st = "rejected"
                                 THEN << [platform |-> "crypto.com",
                                          error |-> ErrorText(exchange.reason)] >>
                                 ELSE <<>>]
    /\ UNCHANGED <<aggVars, priceVars, sortVars, nftVars, portfolio, idRuns, signing,
                   extVars>>


----------------------------------------------------------------------------
(* The ids the adapters give their trade records.  Strings are sequences   *)
(* of characters, so a template literal is a concatenation.                *)

Digits == <<"0", "1", "2", "3", "4", "5", "6", "7", "8", "9">>

\* String(n) for an integer n >= 0.
RECURSIVE ToDigits(_)
ToDigits(n) ==
    IF n < 10 THEN <<Digits[n + 1]>> ELSE ToDigits(n \div 10) \o <<Digits[(n % 10) + 1]>>

Dash == <<"-">>

\* x ?? y
Coalesce(x, y) == IF x = Null THEN y ELSE x[1]

\* `blur-${activity.txHash ?? Date.now()}-${activity.logIndex ?? 0}`
BlurTradeId(activity, t) ==
    <<"b", "l", "u", "r">> \o Dash \o Coalesce(activity.txHash, ToDigits(t))
        \o Dash \o ToDigits(Coalesce(activity.logIndex, 0))

\* `hl-${fill.tid ?? fill.oid ?? Date.now()}`
HyperliquidTradeId(fill, t) ==
    <<"h", "l">> \o Dash \o ToDigits(Coalesce(fill.tid, Coalesce(fill.oid, t)))

\* `cdc-${o.order_id}`
CryptoComTradeId(o) == <<"c", "d", "c">> \o Dash \o o.order_id

\* `eth-${tx.hash}`
EthereumTradeId(tx) == <<"e", "t", "h">> \o Dash \o tx.hash

\* `sol-${tx.signature}`
SolanaTradeId(tx) == <<"s", "o", "l">> \o Dash \o tx.signature

\* The ids one aggregation run at time t gives the records of the responses.
TradeIds(resp, t) ==
    [a \in DOMAIN resp |->
        CASE a = "blur"        -> BlurTradeId(resp[a], t)
          [] a = "hyperliquid" -> HyperliquidTradeId(resp[a], t)
          [] a = "crypto.com"  -> CryptoComTradeId(resp[a])
          [] a = "ethereum"    -> EthereumTradeId(resp[a])
          [] OTHER             -> SolanaTradeId(resp[a])]

MaxRuns == 2

\* One record per adapter; the marketplace and the perpetuals venue may leave the
\* native id fields out.
ProviderRecords ==
    {("blur"        :> [txHash |-> h, logIndex |-> l]) @@
     ("hyperliquid" :> [tid |-> tid, oid |-> oid]) @@
     ("crypto.com"  :> [order_id |-> <<"o", "1">>]) @@
     ("ethereum"    :> [hash |-> <<"0", "x", "e">>]) @@
     ("solana"      :> [signature |-> <<"s", "g">>]) :
        h \in {Null, Some(<<"0", "x", "b">>)}, l \in {Null, Some(3)},
        tid \in {Null, Some(7)}, oid \in {Null, Some(9)}}

NoIdRuns == <<>>

InitIdRuns == \E resp \in ProviderRecords : idRuns = [resp |-> resp, runs |-> <<>>]

\* An aggregation run maps the same provider responses to trade records.
RunAdapters ==
    /\ Len(idRuns.runs) < MaxRuns
    /\ idRuns' = [idRuns EXCEPT !.runs = Append(@, TradeIds(idRuns.resp, now))]
    /\ UNCHANGED <<aggVars, priceVars, sortVars, nftVars, portfolio, exchange, signing,
                   extVars>>

----------------------------------------------------------------------------
(* The signed request of the exchange adapter.  Strings are sequences of   *)
(* characters; params is the sequence of <<key, value>> pairs of the       *)
(* object in insertion order (the keys are names, not array indices, so    *)
(* Object.keys lists them in insertion order).                             *)

\* The characters used, in the order of their UTF-16 code units.
Alphabet ==
    <<"-", "/", "0", "1", "2", "3", "4", "5", "6", "7", "8", "9", "_",
      "a", "b", "c", "d", "e", "f", "g", "h", "i", "j", "k", "l", "m",
      "n", "o", "p", "q", "r", "s", "t", "u", "v", "w", "x", "y", "z">>

CodeUnitRank(c) == CHOOSE i \in 1..Len(Alphabet) : Alphabet[i] = c

\* The order of Array.prototype.sort() without a comparator: by code units, a
\* proper prefix before the longer string.
RECURSIVE LexLess(_, _)
LexLess(x, y) ==
    IF x = <<>> THEN y # <<>>
    ELSE IF y = <<>> THEN FALSE
    ELSE IF Head(x) # Head(y) THEN CodeUnitRank(Head(x)) < CodeUnitRank(Head(y))
    ELSE LexLess(Tail(x), Tail(y))

RECURSIVE InsertSorted(_, _)
InsertSorted(k, sorted) ==
    IF sorted = <<>> THEN <<k>>
    ELSE IF LexLess(k, Head(sorted)) THEN <<k>> \o sorted
    ELSE <<Head(sorted)>> \o InsertSorted(k, Tail(sorted))

\* keys.sort()
RECURSIVE SortKeys(_)
SortKeys(keys) ==
    IF keys = <<>> THEN <<>> ELSE InsertSorted(Head(keys), SortKeys(Tail(keys)))

\* Object.keys(params)
ObjectKeys(params) == [i \in 1..Len(params) |-> params[i][1]]

\* params[key]
ParamValue(params, key) ==
    params[CHOOSE i \in 1..Len(params) : params[i][1] = key][2]

\* strs.join("")
RECURSIVE Join(_)
Join(strs) == IF strs = <<>> THEN <<>> ELSE Head(strs) \o Join(Tail(strs))

paramStringUnsorted(params) ==
    LET keys == ObjectKeys(params)
    IN  Join([i \in 1..Len(keys) |-> keys[i] \o ToDigits(ParamValue(params, keys[i]))])

\* Object.keys(params).sort().map((key) => `${key}${params[key]}`).join("")
paramString(params) ==
    LET keys == SortKeys(ObjectKeys(params))
    IN  Join([i \in 1..Len(keys) |-> keys[i] \o ToDigits(ParamValue(params, keys[i]))])

\* `${method}${id}${config.apiKey}${paramString}${nonce}`
sigPayload(method, id, apiKey, params, nonce) ==
    method \o ToDigits(id) \o apiKey \o paramString(params) \o ToDigits(nonce)

\* HMAC-SHA256 of the message under the secret, hex-encoded: a function of the
\* two, kept as the term.
hmacSign(message, secret) == [hmac |-> message, key |-> secret]

\* The body signedRequest posts.
signedRequest(method, config, params, id, nonce) ==
    [id |-> id, method |-> method, api_key |-> config.apiKey, params |-> params,
     nonce |-> nonce,
     sig |-> hmacSign(sigPayload(method, id, config.apiKey, params, nonce),
                      config.apiSecret)]

MaxParams == 2

RequestMethods ==
    {<<"p", "r", "i", "v", "a", "t", "e", "/", "g", "e", "t", "-", "a", "c", "c", "o", "u", "n", "t", "-", "s", "u", "m", "m", "a", "r", "y">>,
     <<"p", "r", "i", "v", "a", "t", "e", "/", "g", "e", "t", "-", "o", "r", "d", "e", "r", "-", "h", "i", "s", "t", "o", "r", "y">>}

ParamKeys == {<<"p", "a", "g", "e">>, <<"p", "a", "g", "e", "_", "s", "i", "z", "e">>, <<"e", "n", "d">>}

ParamNumbers == {5, 50}

\* The parameter objects: up to MaxParams distinct keys in any insertion order.
ParamObjects ==
    UNION {{ps \in [1..n -> ParamKeys \X ParamNumbers] :
                \A i, j \in 1..n : ps[i][1] = ps[j][1] => i = j} : n \in 0..MaxParams}

Configs == {[apiKey |-> <<"k", "1">>, apiSecret |-> sec] : sec \in {<<"s", "1">>, <<"s", "2">>}}

\* id and nonce are two successive readings of the clock.
NonceLags == {0, 1}

NoSigning == <<>>

\* signedRequest up to the signing of the body.
SignRequest(method, config, params, lag) ==
    /\ signing = NoSigning
    /\ signing' = [body |-> signedRequest(method, config, params, now, now + lag),
                   config |-> config]
    /\ UNCHANGED <<aggVars, priceVars, sortVars, nftVars, portfolio, exchange, idRuns,
                   extVars>>

----------------------------------------------------------------------------
(* The account summary of the exchange adapter: fetchAccountSummary from   *)
(* the accounts of the response to the holdings it returns.                *)

\* What the actions of the parts below leave alone.
coreVars == <<aggVars, priceVars, sortVars, nftVars, auxVars>>

MaxAccounts == 2

Currencies == <<"BTC", "CRO", "ETH">>

\* Number(a.available), Number(a.order), Number(a.stake)
AccountAmounts == {0, 1, 2}

\* The accounts of a response: one entry per currency.
AccountLists ==
    UNION {[1..n -> [available : AccountAmounts, order : AccountAmounts,
                     stake : AccountAmounts]] : n \in 0..MaxAccounts}

Account(i, a) ==
    [currency |-> Currencies[i], available |-> a.available, order |-> a.order,
     stake |-> a.stake]

\* accounts.filter((a) => Number(a.available) + Number(a.order) > 0)
RECURSIVE Balances(_)
Balances(accounts) ==
    IF accounts = <<>> THEN <<>>
    ELSE (IF Head(accounts).available + Head(accounts).order > 0
          THEN <<Head(accounts)>> ELSE <<>>) \o Balances(Tail(accounts))

\* The holding of one balance, at the price usd of its currency (0 when the
\* currency has no price id or no quote).
SummaryHolding(bal, usd) ==
    LET amount == bal.available + bal.order + bal.stake
    IN  [asset |-> bal.currency, platform |-> "crypto.com", amount |-> amount,
         currentPriceUsd |-> usd, currentValueUsd |-> amount * usd,
         change24hPercent |-> 0]

\* fetchAccountSummary on the accounts of the response.
fetchAccountSummary(accounts, usd) ==
    LET balances == Balances(accounts)
    IN  [i \in 1..Len(balances) |-> SummaryHolding(balances[i], usd)]

InitSummary ==
    \E as \in AccountLists :
        summary = [accounts |-> [i \in 1..Len(as) |-> Account(i, as[i])],
                   st |-> "fetching", holdings |-> <<>>]

\* The account summary has arrived and the prices are in: the holdings are returned.
SummaryReturns(usd) ==
    /\ summary.st = "fetching"
    /\ summary' = [summary EXCEPT !.st = "returned",
                                  !.holdings = fetchAccountSummary(summary.accounts, usd)]
    /\ UNCHANGED <<coreVars, fiat, solana, runs, dash, entries>>

----------------------------------------------------------------------------
(* The fiat rate: fetchUsdCadRate and cadRateCache.                        *)

\* 1.36
FallbackRate == Ratio(136, 100)

\* cadRateCache?.rate ?? 1.36, always the constant.
RateOnFailureAlwaysFallback(cache) == FallbackRate

\* cadRateCache?.rate ?? 1.36
RateOnFailure(cache) == IF cache = Null THEN FallbackRate ELSE cache[1].rate

\* if (cadRateCache && Date.now() - cadRateCache.timestamp < CACHE_TTL_MS)
RateCacheFresh(cache, t) == cache # Null /\ t - cache[1].timestamp < CACHE_TTL_MS

\* How the provider may answer: a non-success status, a rejected fetch or body, or
\* a body with data.bitcoin.usd and data.bitcoin.cad (0 where the field is missing).
RateStatuses == {"ok", "http", "throws"}

UsdQuotes == {0, 100, -100}

CadQuotesAt(t) == {0, 130 + t \div ClockStepMs}

\* if (usd && cad && usd > 0)
Usable(usd, cad) == usd # 0 /\ cad # 0 /\ usd > 0

IdleRateCall == [st |-> "idle", remote |-> 0, resp |-> "none", ret |-> FallbackRate]

InitFiat == fiat = [cache |-> Null, call |-> [c \in Callers |-> IdleRateCall]]

\* Caller c invokes fetchUsdCadRate(): a fresh cache entry is returned at once,
\* anything else issues the request and suspends.
CallFetchUsdCadRate(c) ==
    /\ fiat.call[c].st # "fetching"
    /\ fiat' = [fiat EXCEPT !.call[c] =
                  IF RateCacheFresh(fiat.cache, now)
                  THEN [st |-> "returned", remote |-> 0, resp |-> "none",
                        ret |-> fiat.cache[1].rate]
                  ELSE [st |-> "fetching", remote |-> 1, resp |-> "none",
                        ret |-> FallbackRate]]
    /\ UNCHANGED <<coreVars, summary, solana, runs, dash, entries>>

\* The request of c is answered: a usable body sets the cache and returns the rate,
\* everything else returns the cached rate or the constant.
RateAnswers(c, status, usd, cad) ==
    /\ fiat.call[c].st = "fetching"
    /\ IF status = "ok" /\ Usable(usd, cad)
       THEN fiat' = [fiat EXCEPT
                       !.cache = Some([rate |-> Ratio(cad, usd), timestamp |-> now]),
                       !.call[c] = [@ EXCEPT !.st = "returned", !.resp = "usable",
                                             !.ret = Ratio(cad, usd)]]
       ELSE fiat' = [fiat EXCEPT
                       !.call[c] = [@ EXCEPT !.st = "returned",
                                             !.resp = IF status = "ok" THEN "unusable"
                                                      ELSE status,
                                             !.ret = RateOnFailure(fiat.cache)]]
    /\ UNCHANGED <<coreVars, summary, solana, runs, dash, entries>>

----------------------------------------------------------------------------
(* The solana adapter: fetchSolanaHoldings and fetchSolanaTrades of one    *)
(* address, called together as the aggregator calls them.                  *)

\* config.heliusApiKey as a condition: undefined and "" are falsy.
HasHeliusKey(config) == ~Falsy(config.heliusApiKey)

Request(to, what) == [to |-> to, what |-> what]

\* The request fetchSolanaHoldings issues first.
HoldingsRequest(config) ==
    IF HasHeliusKey(config) THEN Request("helius", "balances")
    ELSE Request("rpc", "getBalance")

\* A history fetch that asks the enhanced API whatever the key.
TradesRequestsWithoutGate(config) == <<Request("helius", "transactions")>>

\* The requests fetchSolanaTrades issues: none without a key.
TradesRequests(config) ==
    IF ~HasHeliusKey(config) THEN <<>> ELSE <<Request("helius", "transactions")>>

SolanaConfigs ==
    {[walletAddress |-> w, heliusApiKey |-> k] :
        w \in {<<"a">>, <<"b">>}, k \in {Null, Some(<<>>), Some(<<"h">>), Some(<<"h", "2">>)}}

\* nativeBalance or result.value, in lamports / 1e9.
SolAmounts == {0, 2}

InitSolana ==
    \E config \in SolanaConfigs :
        solana = [config |-> config, h |-> "idle", t |-> "idle", requests |-> <<>>,
                  amount |-> 0, holdings |-> <<>>, trades |-> <<>>]

\* Promise.all([fetchSolanaHoldings(config), fetchSolanaTrades(config)]) up to the
\* first await of each.
CallSolana ==
    /\ solana.h = "idle"
    /\ LET tr == TradesRequests(solana.config)
       IN  solana' = [solana EXCEPT
                        !.h = "balances",
                        !.t = IF tr = <<>> THEN "returned" ELSE "fetching",
                        !.requests = <<HoldingsRequest(solana.config)>> \o tr]
    /\ UNCHANGED <<coreVars, summary, fiat, runs, dash, entries>>

\* The balance request is answered: a failure throws, a zero balance returns [] on
\* the public node, anything else goes on to the price lookup.
SolanaBalanceAnswers(ok, amount) ==
    /\ solana.h = "balances"
    /\ solana' =
         IF ~ok THEN [solana EXCEPT !.h = "threw"]
         ELSE IF ~HasHeliusKey(solana.config) /\ amount <= 0
         THEN [solana EXCEPT !.h = "returned"]
         ELSE [solana EXCEPT !.h = "price", !.amount = amount,
                             !.requests = Append(@, Request("coingecko", "price"))]
    /\ UNCHANGED <<coreVars, summary, fiat, runs, dash, entries>>

\* The price lookup of the holdings is answered.
SolanaPriceAnswers(ok, usd) ==
    /\ solana.h = "price"
    /\ solana' =
         IF ~ok THEN [solana EXCEPT !.h = "threw"]
         ELSE [solana EXCEPT
                 !.h = "returned",
                 !.holdings = IF solana.amount > 0
                              THEN <<Holding("solana", solana.amount, usd)>> ELSE <<>>]
    /\ UNCHANGED <<coreVars, summary, fiat, runs, dash, entries>>

\* The history request is answered.
SolanaHistoryAnswers(ok) ==
    /\ solana.t = "fetching"
    /\ solana' =
         IF ~ok THEN [solana EXCEPT !.t = "threw"]
         ELSE [solana EXCEPT !.t = "returned",
                             !.trades = TradesOf("solana", solana.config.walletAddress)]
    /\ UNCHANGED <<coreVars, summary, fiat, runs, dash, entries>>

----------------------------------------------------------------------------
(* The dashboard: handleRefresh and the flags of the portfolio store.      *)

MaxRefreshes == 3

Refreshes == 1..MaxRefreshes

\* How the awaited fetch of a refresh ends: a result without errors, a result with
\* errors, or a rejection.
RefreshOutcomes == {"clean", "errors", "threw"}

\* loading and error of usePortfolioStore, the refresh whose holdings are shown
\* (0: none), and each invocation of handleRefresh.
InitDash ==
    dash = [loading |-> FALSE, error |-> Null, shown |-> 0,
            refresh |-> [r \in Refreshes |-> "idle"]]

\* handleRefresh up to its await: setLoading(true); setError(null).
HandleRefresh(r) ==
    /\ dash.refresh[r] = "idle"
    /\ dash' = [dash EXCEPT !.loading = TRUE, !.error = Null, !.refresh[r] = "inflight"]
    /\ UNCHANGED <<coreVars, summary, fiat, solana, runs, entries>>

\* handleRefresh from the end of its await: the try block or the catch block, then
\* finally setLoading(false).
FinishRefresh(r, outcome) ==
    /\ dash.refresh[r] = "inflight"
    /\ dash' = [dash EXCEPT
                  !.shown = IF outcome = "threw" THEN @ ELSE r,
                  !.error = IF outcome = "clean" THEN @ ELSE Some(outcome),
                  !.loading = FALSE,
                  !.refresh[r] = "done"]
    /\ UNCHANGED <<coreVars, summary, fiat, solana, runs, entries>>

----------------------------------------------------------------------------
(* The manual-entries store: addEntry, updateEntry, deleteEntry.           *)

MaxEntries == 3

EntryIds == {"m1", "m2"}

\* A ManualEntry, as far as the store looks at it.
Entry(id, date, notes) == [id |-> id, date |-> date, notes |-> notes]

\* Partial<ManualEntry>: the fields an update carries.
EntryUpdates ==
    UNION {[F -> {"edited"}] : F \in {{}, {"notes"}}}
      \cup {[f \in {"date"} |-> d] : d \in SortDates}

\* { ...e, ...updates }
Merge(e, updates) ==
    [f \in DOMAIN e |-> IF f \in DOMAIN updates THEN updates[f] ELSE e[f]]

\* [...get().entries, entry].sort((a, b) => getTime(b.date) - getTime(a.date))
addEntry(es, entry) == SortTrades(Append(es, entry))

\* get().entries.map((e) => e.id === id ? { ...e, ...updates } : e)
updateEntry(es, id, updates) ==
    [i \in 1..Len(es) |-> IF es[i].id = id THEN Merge(es[i], updates) ELSE es[i]]

\* get().entries.filter((e) => e.id !== id)
deleteEntry(es, id) == SelectSeq(es, LAMBDA e : e.id # id)

AddEntry(id, date) ==
    /\ Len(entries) < MaxEntries
    /\ entries' = addEntry(entries, Entry(id, date, "new"))
    /\ UNCHANGED <<coreVars, summary, fiat, solana, runs, dash>>

UpdateEntry(id, updates) ==
    /\ entries' = updateEntry(entries, id, updates)
    /\ UNCHANGED <<coreVars, summary, fiat, solana, runs, dash>>

DeleteEntry(id) ==
    /\ entries' = deleteEntry(entries, id)
    /\ UNCHANGED <<coreVars, summary, fiat, solana, runs, dash>>

----------------------------------------------------------------------------
(* Specifications.                                                         *)

\* The variables of a part that a specification does not exercise.
IdleAgg ==
    /\ cred = CredentialStore({}, "null", <<"a">>, Null)
    /\ connectionStatus = computeInitialStatus(cred)
    /\ pc = "init"
    /\ task = [p \in PlatformSet |-> IdleTask]
    /\ adapterCalls = [p \in PlatformSet |-> 0]
    /\ result = NoResult
    /\ statusCalls = <<>>

IdleSort == allTrades = <<>> /\ sortPc = "sorted"

IdleNft == nftTokens = <<>> /\ nftHoldings = <<>> /\ nftPc = "enriched" /\ nftEthPrice = 0

IdleExchange == exchange = NoExchange

IdleIdRuns == idRuns = NoIdRuns

IdleSigning == signing = NoSigning

IdleAux == InitPortfolio /\ IdleExchange /\ IdleIdRuns /\ IdleSigning

IdleSummary == summary = <<>>

IdleFiat == fiat = <<>>

IdleSolana == solana = <<>>

IdleRuns == runs = 0

IdleDash == dash = <<>>

IdleEntries == entries = <<>>

IdleExt == IdleSummary /\ IdleFiat /\ IdleSolana /\ IdleRuns /\ IdleDash /\ IdleEntries

\* One run of fetchAllPlatformData.
Init == InitAgg /\ InitPrice /\ IdleSort /\ IdleNft /\ IdleAux /\ IdleExt

Next ==
    \/ Start
    \/ \E p \in PairPlatforms, kind \in {"h", "t"}, ok \in BOOLEAN : SettleCall(p, kind, ok)
    \/ \E p \in SequentialPlatforms, hok, tok \in BOOLEAN : SettleAddress(p, hok, tok)
    \/ \E i \in 1..Len(task["bitcoin"].bal), ok \in BOOLEAN : SettleBalance(i, ok)
    \/ \E p \in {"bitcoin", "blur"}, usd \in PriceQuotes : PriceAnswers(p, usd)
    \/ \E p \in {"bitcoin", "blur"} : PriceFails(p)
    \/ Collect

Spec == Init /\ [][Next]_vars

\* One run in which provider requests may hang; every request that does not hang
\* is answered.  The configured platforms hold one address or account each.
InitHungBranch ==
    /\ \E S \in SUBSET PlatformSet :
          /\ Cardinality(S) <= MaxConfigured
          /\ cred = CredentialStore(S, "null", <<"a">>, Some(<<"h">>))
    /\ connectionStatus = computeInitialStatus(cred)
    /\ pc = "init"
    /\ task = [p \in PlatformSet |-> IdleTask]
    /\ adapterCalls = [p \in PlatformSet |-> 0]
    /\ result = NoResult
    /\ statusCalls = <<>>
    /\ InitPrice /\ IdleSort /\ IdleNft /\ IdleAux /\ IdleExt

NextHungBranch ==
    \/ Next
    \/ \E p \in PlatformSet : Hang(p)

\* A provider answers a pending request, with success or failure.
Answered ==
    \/ \E p \in PairPlatforms, kind \in {"h", "t"}, ok \in BOOLEAN : SettleCall(p, kind, ok)
    \/ \E p \in SequentialPlatforms, hok, tok \in BOOLEAN : SettleAddress(p, hok, tok)
    \/ \E i \in 1..Len(task["bitcoin"].bal), ok \in BOOLEAN : SettleBalance(i, ok)
    \/ \E p \in {"bitcoin", "blur"}, usd \in PriceQuotes : PriceAnswers(p, usd)
    \/ \E p \in {"bitcoin", "blur"} : PriceFails(p)

SpecHungBranch ==
    InitHungBranch /\ [][NextHungBranch]_vars /\ WF_vars(Start) /\ WF_vars(Answered)

\* Two runs of fetchAllPlatformData, one after the other, over the same settings
\* store.
NextRuns ==
    \/ Next
    \/ Rerun

SpecRuns == InitHungBranch /\ [][NextRuns]_vars

\* The price oracle under concurrent callers.
InitPriceOracle == IdleAgg /\ InitPrice /\ IdleSort /\ IdleNft /\ IdleAux /\ IdleExt

NextPriceOracle ==
    \/ \E c \in Callers, coinIds \in (SUBSET CoinIds) \ {{}} : CallFetchPrices(c, coinIds)
    \/ \E c \in Callers : RemoteAnswers(c)
    \/ \E c \in Callers : RemoteFails(c)
    \/ Tick

SpecPriceOracle == InitPriceOracle /\ [][NextPriceOracle]_vars

\* The trade sort.
InitTradeSort == IdleAgg /\ InitPrice /\ InitSort /\ IdleNft /\ IdleAux /\ IdleExt

NextTradeSort == SortMerged

SpecTradeSort == InitTradeSort /\ [][NextTradeSort]_vars

\* The NFT pipeline.
InitNftPipeline == IdleAgg /\ InitPrice /\ IdleSort /\ InitNft /\ IdleAux /\ IdleExt

NextNftPipeline ==
    \/ FetchNft
    \/ \E usd \in PriceQuotes : EnrichNft(usd)

SpecNftPipeline == InitNftPipeline /\ [][NextNftPipeline]_vars

\* The valuation of holdings lists.
InitValuation == IdleAgg /\ InitPrice /\ IdleSort /\ IdleNft /\ IdleAux /\ IdleExt

NextValuation ==
    \E n \in 0..MaxHoldings : \E holdings \in [1..n -> ValuedHoldings] : SetHoldings(holdings)

SpecValuation == InitValuation /\ [][NextValuation]_vars

\* The crypto.com adapters.
InitSignedExchange == IdleAgg /\ InitPrice /\ IdleSort /\ IdleNft /\ IdleAux /\ IdleExt

NextSignedExchange ==
    \/ ExchangeStart
    \/ \E method \in SignedMethods, response \in SignedResponses :
          ExchangeResponds(method, response)
    \/ ExchangeCollect

SpecSignedExchange == InitSignedExchange /\ [][NextSignedExchange]_vars

\* Repeated aggregation runs over the same provider responses.
InitTradeIds ==
    /\ IdleAgg /\ InitPrice /\ IdleSort /\ IdleNft
    /\ InitPortfolio /\ IdleExchange /\ InitIdRuns /\ IdleSigning /\ IdleExt

NextTradeIds ==
    \/ RunAdapters
    \/ Tick

SpecTradeIds == InitTradeIds /\ [][NextTradeIds]_vars

\* Signing one request of the exchange adapter at some time.
InitSignature ==
    /\ IdleAgg /\ InitPrice /\ IdleSort /\ IdleNft /\ IdleAux /\ IdleExt

NextSignature ==
    \/ \E method \in RequestMethods, config \in Configs, params \in ParamObjects,
          lag \in NonceLags : SignRequest(method, config, params, lag)
    \/ Tick

SpecSignature == InitSignature /\ [][NextSignature]_vars

\* fetchAccountSummary over every account list up to a length.
InitAccountSummary ==
    /\ IdleAgg /\ InitPrice /\ IdleSort /\ IdleNft /\ IdleAux
    /\ InitSummary /\ IdleFiat /\ IdleSolana /\ IdleRuns /\ IdleDash /\ IdleEntries

NextAccountSummary == \E usd \in PriceQuotes : SummaryReturns(usd)

SpecAccountSummary == InitAccountSummary /\ [][NextAccountSummary]_vars

\* The fiat rate under concurrent callers.
InitFiatRate ==
    /\ IdleAgg /\ InitPrice /\ IdleSort /\ IdleNft /\ IdleAux
    /\ IdleSummary /\ InitFiat /\ IdleSolana /\ IdleRuns /\ IdleDash /\ IdleEntries

NextFiatRate ==
    \/ \E c \in Callers : CallFetchUsdCadRate(c)
    \/ \E c \in Callers, status \in RateStatuses, usd \in UsdQuotes, cad \in CadQuotesAt(now) :
          RateAnswers(c, status, usd, cad)
    \/ Tick

SpecFiatRate == InitFiatRate /\ [][NextFiatRate]_vars

\* The solana adapter on one address.
InitSolanaAdapter ==
    /\ IdleAgg /\ InitPrice /\ IdleSort /\ IdleNft /\ IdleAux
    /\ IdleSummary /\ IdleFiat /\ InitSolana /\ IdleRuns /\ IdleDash /\ IdleEntries

NextSolanaAdapter ==
    \/ CallSolana
    \/ \E ok \in BOOLEAN, amount \in SolAmounts : SolanaBalanceAnswers(ok, amount)
    \/ \E ok \in BOOLEAN, usd \in PriceQuotes : SolanaPriceAnswers(ok, usd)
    \/ \E ok \in BOOLEAN : SolanaHistoryAnswers(ok)

SpecSolanaAdapter == InitSolanaAdapter /\ [][NextSolanaAdapter]_vars

\* Dashboard refreshes that may overlap.
InitDashboard ==
    /\ IdleAgg /\ InitPrice /\ IdleSort /\ IdleNft /\ IdleAux
    /\ IdleSummary /\ IdleFiat /\ IdleSolana /\ IdleRuns /\ InitDash /\ IdleEntries

NextDashboard ==
    \/ \E r \in Refreshes : HandleRefresh(r)
    \/ \E r \in Refreshes, outcome \in RefreshOutcomes : FinishRefresh(r, outcome)

SpecDashboard == InitDashboard /\ [][NextDashboard]_vars

\* The manual-entries store from the empty list.
InitManualEntries ==
    /\ IdleAgg /\ InitPrice /\ IdleSort /\ IdleNft /\ IdleAux /\ IdleExt

NextManualEntries ==
    \/ \E id \in EntryIds, date \in SortDates : AddEntry(id, date)
    \/ \E id \in EntryIds, updates \in EntryUpdates : UpdateEntry(id, updates)
    \/ \E id \in EntryIds : DeleteEntry(id)

SpecManualEntries == InitManualEntries /\ [][NextManualEntries]_vars

----------------------------------------------------------------------------
(* Properties of one run of fetchAllPlatformData (Spec).                   *)

Range(s) == {s[i] : i \in 1..Len(s)}

RejectedPlatforms == {p \in PlatformSet : task[p].st = "rejected"}

FulfilledPlatforms == {p \in PlatformSet : task[p].st = "fulfilled"}

\* Platforms with an entry in result.errors.
ErrorPlatforms == {result.errors[i].platform : i \in 1..Len(result.errors)}

\* Platforms for which at least one adapter function was invoked.
FetchedPlatforms == {p \in PlatformSet : adapterCalls[p] > 0}

\* C1: whatever the per-platform outcomes, every platform failing included,
\* fetchAllPlatformData never rejects: once every platform task has settled its
\* await resolves, and what it then returns is an AggregatorResult.
C1_NeverRejects ==
    /\ pc \in {"init", "awaiting", "done"}
    /\ (pc = "awaiting" /\ \A p \in PlatformSet : task[p].st \in Settled) =>
          allSettled(task) = "fulfilled"
    /\ pc = "done" =>
         /\ DOMAIN result = {"holdings", "trades", "errors"}
         /\ Len(result.errors) = Cardinality(RejectedPlatforms)

\* A finished run in which every platform that was fetched rejected.
C1_Witness ==
    /\ pc = "done"
    /\ Cardinality(FetchedPlatforms) >= 2
    /\ FetchedPlatforms \subseteq RejectedPlatforms

\* C2: when exactly one platform's fetch rejects and the others succeed, then in
\* whatever order the promises settled the result holds every holding and every
\* trade the successful platforms returned, and errors has exactly one entry, which
\* names the failed platform.
C2_OneFailureIsolated ==
    (pc = "done" /\ Cardinality(RejectedPlatforms) = 1) =>
        /\ Len(result.errors) = 1
        /\ result.errors[1].platform \in RejectedPlatforms
        /\ \A q \in FulfilledPlatforms :
              /\ Range(task[q].holdings) \subseteq Range(result.holdings)
              /\ Range(task[q].trades) \subseteq Range(result.trades)
        /\ Len(result.holdings) = SumSeq([i \in 1..Len(platforms) |->
                                            IF platforms[i] \in FulfilledPlatforms
                                            THEN Len(task[platforms[i]].holdings) ELSE 0])

\* A finished run: one platform rejected, and a platform that comes after it in the
\* platforms array succeeded with data.
C2_Witness ==
    /\ pc = "done"
    /\ Cardinality(RejectedPlatforms) = 1
    /\ \E i, j \in 1..Len(platforms) :
          /\ i < j
          /\ task[platforms[i]].st = "rejected"
          /\ task[platforms[j]].st = "fulfilled"
          /\ task[platforms[j]].holdings # <<>>
          /\ task[platforms[j]].trades # <<>>

\* No address is left after splitting on newline or comma and trimming: the string
\* is null or consists of separators and white space only.
NoAddress(raw) ==
    raw = Null \/ \A i \in 1..Len(raw[1]) : raw[1][i] \in {"\n", ",", " "}

NullOrEmpty(c) == c = Null \/ c = Some(<<>>)

\* The platform's required credential is absent.
CredentialAbsent(p) ==
    CASE p = "crypto.com" ->
           NullOrEmpty(cred[p]["apiKey"]) \/ NullOrEmpty(cred[p]["apiSecret"])
      [] p \in {"hyperliquid", "blur"} -> NullOrEmpty(cred[p]["walletAddress"])
      [] OTHER -> NoAddress(cred[p]["walletAddress"])

\* C3: a platform whose required credential is absent contributes {holdings: [],
\* trades: []}: none of its adapter functions is invoked, its task fulfils empty,
\* and the result has no error entry, holding or trade of it.
C3_AbsentCredentialSkipped ==
    \A p \in PlatformSet : CredentialAbsent(p) =>
        /\ adapterCalls[p] = 0
        /\ pc # "init" =>
             task[p].st = "fulfilled" /\ task[p].holdings = <<>> /\ task[p].trades = <<>>
        /\ pc = "done" =>
             /\ p \notin ErrorPlatforms
             /\ \A h \in Range(result.holdings) : h.platform # p
             /\ \A t \in Range(result.trades) : t.platform # p

\* A finished run in which the ethereum wallet list holds separators and blanks
\* only while another platform was fetched.
C3_Witness ==
    /\ pc = "done"
    /\ cred["ethereum"]["walletAddress"] = Some(BlankList)
    /\ FetchedPlatforms # {}

\* Every provider call the platform made failed.
TotalFailure(p) ==
    CASE p \in PairPlatforms ->
           /\ "fail" \in {task[p].h, task[p].t}
           /\ "ok" \notin {task[p].h, task[p].t}
      [] p \in SequentialPlatforms ->
           \A i \in 1..Len(task[p].outcomes) :
              task[p].outcomes[i].h = "fail" /\ task[p].outcomes[i].t # "ok"
      [] OTHER ->
           \A i \in 1..Len(task[p].bal) : task[p].bal[i] = "fail"

\* C4: when every configured platform fails totally, the result has no holdings and
\* no trades and errors lists every configured platform.
C4_TotalFailureListsEveryPlatform ==
    (pc = "done" /\ \A p \in FetchedPlatforms : TotalFailure(p)) =>
        /\ result.holdings = <<>>
        /\ result.trades = <<>>
        /\ FetchedPlatforms \subseteq ErrorPlatforms

\* A finished run in which platforms were fetched and every one of them failed
\* totally.
C4_Witness ==
    /\ pc = "done"
    /\ Cardinality(FetchedPlatforms) >= 2
    /\ \A p \in FetchedPlatforms : TotalFailure(p)

----------------------------------------------------------------------------
(* Properties of the trade sort (SpecTradeSort).                           *)

\* a is not earlier than b, read off the calendar fields.
NotEarlier(a, b) ==
    \/ a.y > b.y
    \/ a.y = b.y /\ a.m > b.m
    \/ a.y = b.y /\ a.m = b.m /\ a.d >= b.d

\* C6: whatever the order of the merged trades, the sorted list holds the same
\* records, each trade's date is not earlier than the date of every trade after
\* it, and trades with equal dates keep their relative merge order (the number in
\* a record's id is its position in the merged list).
C6_TradesSortedDescendingStable ==
    sortPc = "sorted" =>
        /\ {allTrades[i].id[2][1] : i \in 1..Len(allTrades)} = 1..Len(allTrades)
        /\ \A i, j \in 1..Len(allTrades) : i < j =>
              /\ NotEarlier(allTrades[i].date, allTrades[j].date)
              /\ allTrades[i].date = allTrades[j].date =>
                    allTrades[i].id[2][1] < allTrades[j].id[2][1]

\* A sorted list of full length that was merged in another order and has a tie.
C6_Witness ==
    /\ sortPc = "sorted"
    /\ Len(allTrades) = MaxTrades
    /\ \E i \in 1..Len(allTrades) : allTrades[i].id[2][1] # i
    /\ \E i \in 1..(Len(allTrades) - 1) : allTrades[i].date = allTrades[i + 1].date

----------------------------------------------------------------------------
(* Properties of the price oracle (SpecPriceOracle).                       *)

\* The step is an invocation of fetchPrices by c.
Invokes(c) == call[c].st # "fetching" /\ call'[c] # call[c]

\* The step is the successful completion of c's remote request.
Completes(c) == call[c].st = "fetching" /\ call'[c].st = "returned"

\* C7: an invocation whose requested ids are all in the cache while the cache is
\* younger than the TTL performs no remote call and returns at once.
C7_FreshCacheNoRemoteCall ==
    [][\A c \in Callers :
         (/\ Invokes(c)
          /\ priceCache # Null
          /\ now - priceCache[1].timestamp < CACHE_TTL_MS
          /\ call'[c].ids \subseteq DOMAIN priceCache[1].prices)
         => (call'[c].remote = 0 /\ call'[c].st = "returned")]_vars

\* An invocation answered from a cache that is older than zero and younger than
\* the TTL.
C7_Witness ==
    \E c \in Callers :
        /\ call[c].st = "returned"
        /\ call[c].remote = 0
        /\ priceCache # Null
        /\ now - priceCache[1].timestamp > 0
        /\ now - priceCache[1].timestamp < CACHE_TTL_MS

\* C8 as stated: when a fetch for one id that is not cached plus ids that are
\* cached completes, it has made exactly one remote call and the entries of the
\* requested ids that were cached are what they were before.
C8_CachedEntriesUntouched ==
    [][\A c \in Callers :
         (/\ Completes(c)
          /\ Cardinality(call[c].ids \ DOMAIN CachePrices(priceCache)) = 1
          /\ call[c].ids \cap DOMAIN CachePrices(priceCache) # {})
         => /\ call'[c].remote = 1
            /\ \A id \in call[c].ids \cap DOMAIN CachePrices(priceCache) :
                  CachePrices(priceCache')[id] = CachePrices(priceCache)[id]]_vars

\* C8, amended: an invocation with an id that is not cached issues exactly one
\* remote request; it is for all the requested ids, and on completion the cache
\* holds the fetched quote for every requested id, cached before or not, while
\* every cached entry whose id was not requested is what it was before.
C8_RequestedOverwrittenOthersUntouched ==
    [][\A c \in Callers :
         /\ (Invokes(c) /\ call'[c].ids \ DOMAIN CachePrices(priceCache) # {})
            => (call'[c].st = "fetching" /\ call'[c].remote = 1)
         /\ Completes(c) =>
              /\ call'[c].remote = 1
              /\ DOMAIN call'[c].ret = call[c].ids
              /\ \A id \in call[c].ids :
                    /\ id \in DOMAIN CachePrices(priceCache')
                    /\ CachePrices(priceCache')[id] = call'[c].ret[id]
              /\ \A id \in DOMAIN CachePrices(priceCache) \ call[c].ids :
                    /\ id \in DOMAIN CachePrices(priceCache')
                    /\ CachePrices(priceCache')[id] = CachePrices(priceCache)[id]]_vars

\* A completed fetch of two ids after which the cache holds a fresher quote for a
\* requested id than for an id that was not requested.
C8_Witness ==
    \E c \in Callers :
        /\ call[c].st = "returned"
        /\ call[c].remote = 1
        /\ Cardinality(call[c].ids) = 2
        /\ \E id \in call[c].ids, other \in DOMAIN CachePrices(priceCache) \ call[c].ids :
              /\ CachePrices(priceCache)[id] = call[c].ret[id]
              /\ CachePrices(priceCache)[other].usd < CachePrices(priceCache)[id].usd

\* Every caller has returned.
AllReturned == \A c \in Callers : call[c].st = "returned"

\* Every id fetched by a returned caller is in the cache.
FetchedIdsCached ==
    \A c \in Callers :
        (call[c].st = "returned" /\ call[c].remote = 1) =>
            call[c].ids \subseteq DOMAIN CachePrices(priceCache)

\* C9: cache updates are additive merges.  In every interleaving of concurrent
\* fetchPrices calls no step removes an id from the cache, a completing call
\* leaves its ids in the cache, and once all calls have returned every id any of
\* them fetched is in the cache.
C9_CacheUpdatesAdditive ==
    [][/\ DOMAIN CachePrices(priceCache) \subseteq DOMAIN CachePrices(priceCache')
       /\ \A c \in Callers :
             Completes(c) => call[c].ids \subseteq DOMAIN CachePrices(priceCache')
       /\ AllReturned' => FetchedIdsCached']_vars

\* Both callers have fetched, for disjoint ids, and the cache holds all of them.
C9_Witness ==
    /\ AllReturned
    /\ call["c1"].remote = 1
    /\ call["c2"].remote = 1
    /\ call["c1"].ids \cap call["c2"].ids = {}
    /\ (call["c1"].ids \cup call["c2"].ids) \subseteq DOMAIN CachePrices(priceCache)
    /\ now = 0

----------------------------------------------------------------------------
(* Properties of the NFT pipeline (SpecNftPipeline).                       *)

\* The ETH value of the tokens of one collection: floor price times quantity.
NativeValue(collection) ==
    SumSeq([i \in 1..Len(nftTokens) |->
              IF nftTokens[i].collection = collection
              THEN nftTokens[i].floor * nftTokens[i].qty ELSE 0])

\* C10: every holding the NFT adapter returns has currentPriceUsd = 0 and
\* currentValueUsd = 0; after the enrichment with the ETH price P the value of
\* each holding is its ETH value times P; so a holding's currentValueUsd is
\* positive only once the enrichment has run.
C10_NftValuedOnlyByEnrichment ==
    \A i \in 1..Len(nftHoldings) :
        /\ nftPc = "raw" =>
             /\ nftHoldings[i].currentPriceUsd.num = 0
             /\ nftHoldings[i].currentValueUsd = 0
        /\ nftPc = "enriched" =>
             nftHoldings[i].currentValueUsd =
                 NativeValue(nftHoldings[i].asset[2]) * nftEthPrice
        /\ nftHoldings[i].currentValueUsd > 0 => nftPc = "enriched"

\* Enriched holdings of two collections, one of them with a positive value.
C10_Witness ==
    /\ nftPc = "enriched"
    /\ Len(nftHoldings) = 2
    /\ nftEthPrice > 0
    /\ \E i \in 1..Len(nftHoldings) : nftHoldings[i].currentValueUsd > 0

----------------------------------------------------------------------------
(* Properties of the valuation (SpecValuation).                            *)

Refreshed == portfolio.lastRefreshed # Null

\* Some holding of the store lost all of its value in the last 24 hours.
HasTotalLoss ==
    \E i \in 1..Len(portfolio.holdings) : portfolio.holdings[i].change24hPercent = -100

\* The inferred prior value v / (1 + c / 100) = 100 v / (100 + c) of a holding whose
\* change c is not -100.
PriorValue(h) == Fin(100 * h.currentValueUsd, 100 + h.change24hPercent)

RECURSIVE PriorSumOf(_)
PriorSumOf(hs) ==
    IF hs = <<>> THEN Num(0) ELSE NumAdd(PriorValue(Head(hs)), PriorSumOf(Tail(hs)))

\* The sum of the prior values of the store's holdings (no holding with c = -100).
PriorSum == PriorSumOf(portfolio.holdings)

TotalValue == Num(SumSeq([i \in 1..Len(portfolio.holdings) |->
                            portfolio.holdings[i].currentValueUsd]))

\* The valuation follows the formulas: change = total - prior sum, percent =
\* change / prior sum * 100.
FollowsFormulas ==
    /\ portfolio.totalValueUsd = TotalValue
    /\ portfolio.change24hUsd = NumSub(TotalValue, PriorSum)
    /\ portfolio.change24hPercent =
          NumMul(NumDiv(NumSub(TotalValue, PriorSum), PriorSum), Num(100))

\* One holding worth 1000 that gained 25 %: prior 800, change 200, percent 25.
ExampleHolds ==
    portfolio.holdings = << [currentValueUsd |-> 1000, change24hPercent |-> 25] >> =>
        /\ PriorSum = Num(800)
        /\ portfolio.change24hUsd = Num(200)
        /\ portfolio.change24hPercent = Num(25)

C12_TotalLossGuarded ==
    (Refreshed /\ HasTotalLoss) =>
        /\ IsFinite(portfolio.totalValueUsd)
        /\ IsFinite(portfolio.change24hUsd)
        /\ IsFinite(portfolio.change24hPercent)

\* The store holds a list with a holding whose change is -100 %.
C12_Witness == Refreshed /\ HasTotalLoss /\ Len(portfolio.holdings) = 2

\* C13: the valuation of the empty list is 0, 0 and 0, and the percentage is 0
\* whenever the sum of the prior values is 0.
C13_ZeroDenominatorGivesZero ==
    Refreshed =>
        /\ portfolio.holdings = <<>> =>
              /\ portfolio.totalValueUsd = Num(0)
              /\ portfolio.change24hUsd = Num(0)
              /\ portfolio.change24hPercent = Num(0)
        /\ (~HasTotalLoss /\ PriorSum = Num(0)) => portfolio.change24hPercent = Num(0)

\* The store after setHoldings([]).
C13_Witness == Refreshed /\ portfolio.holdings = <<>>

----------------------------------------------------------------------------
(* Further properties of one run of fetchAllPlatformData (Spec).           *)

\* The addresses of p for which a provider request is under way.
InFlight(p) ==
    IF p = "bitcoin"
    THEN {i \in 1..Len(task[p].bal) : task[p].bal[i] = "pending"}
    ELSE IF task[p].st = "pending" THEN {task[p].idx} ELSE {}

\* C14: within ethereum, bitcoin and solana the addresses are fetched one after
\* the other: at any time at most one address of a platform has provider requests
\* under way.
C14_AddressesSequential ==
    \A p \in {"ethereum", "bitcoin", "solana"} : Cardinality(InFlight(p)) <= 1

\* ethereum is fetching its second address after the calls for the first settled.
C14_Witness ==
    /\ task["ethereum"].st = "pending"
    /\ task["ethereum"].idx = 2
    /\ Len(task["ethereum"].outcomes) = 1

\* C20: a platform with an entry in errors has no holding and no trade in the
\* merged result, also when one of its two adapter calls had succeeded before the
\* other failed.
C20_FailedPlatformContributesNothing ==
    pc = "done" =>
        \A p \in ErrorPlatforms :
            /\ \A h \in Range(result.holdings) : h.platform # p
            /\ \A t \in Range(result.trades) : t.platform # p

\* A finished run with crypto.com in errors after its holdings call succeeded and
\* its trades call failed, and with blur in errors after both calls succeeded and
\* the price lookup failed.
C20_Witness ==
    /\ pc = "done"
    /\ {"crypto.com", "blur"} \subseteq ErrorPlatforms
    /\ task["crypto.com"].h = "ok"
    /\ task["crypto.com"].t = "fail"
    /\ task["blur"].trades # <<>>

\* The statuses the run has set for p.
StatusesSet(p) ==
    {statusCalls[i].status : i \in {j \in 1..Len(statusCalls) : statusCalls[j].platform = p}}

\* C16: once the outcomes are processed, a platform's status has been set to
\* "error" exactly when its fetch rejected, and then errors has an entry for it
\* with the failure message; it has been set to "connected" only if its fetch
\* succeeded with at least one holding or trade.
C16_StatusFollowsOutcome ==
    pc = "done" =>
        \A p \in PlatformSet :
            /\ "error" \in StatusesSet(p) <=> task[p].st = "rejected"
            /\ task[p].st = "rejected" =>
                  /\ connectionStatus[p] = "error"
                  /\ \E i \in 1..Len(result.errors) :
                        /\ result.errors[i].platform = p
                        /\ result.errors[i].error = task[p].reason[1]
            /\ "connected" \in StatusesSet(p) =>
                  /\ task[p].st = "fulfilled"
                  /\ connectionStatus[p] = "connected"
                  /\ \/ \E h \in Range(result.holdings) : h.platform = p
                     \/ \E t \in Range(result.trades) : t.platform = p

\* A finished run that set one platform to "error" and another to "connected".
C16_Witness ==
    /\ pc = "done"
    /\ \E p, q \in PlatformSet :
          /\ "error" \in StatusesSet(p)
          /\ "connected" \in StatusesSet(q)

----------------------------------------------------------------------------
(* Further properties of the price oracle (SpecPriceOracle).               *)

\* When the provider gave the quote q: QuoteAt quotes 100 plus the number of clock
\* steps at the time of the request.
FetchedAt(q) == (q.usd - 100) * ClockStepMs

\* C19: every price that fetchPrices returns from the cache for a requested id was
\* fetched from the provider less than CACHE_TTL_MS before the call; a refresh
\* caused by other ids does not prolong the life of an id it did not fetch.
C19_CachedPriceYoungerThanTtl ==
    [][\A c \in Callers :
         (Invokes(c) /\ call'[c].remote = 0) =>
            \A id \in call'[c].ids : now - FetchedAt(call'[c].ret[id]) < CACHE_TTL_MS]_vars

\* A call answered from the cache with the quote of a requested id that the
\* provider gave a full TTL earlier.
C19_Witness ==
    \E c \in Callers : \E id \in call[c].ids :
        /\ call[c].st = "returned"
        /\ call[c].remote = 0
        /\ now - FetchedAt(call[c].ret[id]) >= CACHE_TTL_MS
        /\ now - priceCache[1].timestamp < CACHE_TTL_MS

----------------------------------------------------------------------------
(* Properties of the crypto.com adapters (SpecSignedExchange).             *)

\* C15: whenever a signed request was answered with a success status and a
\* non-zero code, the crypto.com fetch does not succeed, and once the aggregator
\* has processed its outcome crypto.com is recorded in errors.
C15_NonZeroCodeFailsPlatform ==
    (\E m \in SignedMethods : exchange.resp[m] = "code") =>
        /\ exchange.st # "fulfilled"
        /\ exchange.collected =>
              \E i \in 1..Len(exchange.errors) : exchange.errors[i].platform = "crypto.com"

\* The order history was answered with a non-zero code, and crypto.com is in
\* errors with the message of that code.
C15_Witness ==
    /\ exchange.resp["private/get-order-history"] = "code"
    /\ exchange.collected
    /\ exchange.errors =
          << [platform |-> "crypto.com",
              error |-> "Crypto.com API error: 10002 - UNAUTHORIZED"] >>

----------------------------------------------------------------------------
(* Properties of the trade ids (SpecTradeIds).                             *)

IsPrefix(pre, str) == Len(pre) <= Len(str) /\ SubSeq(str, 1, Len(pre)) = pre

PrefixOf(a) ==
    CASE a = "blur"        -> <<"b", "l", "u", "r", "-">>
      [] a = "hyperliquid" -> <<"h", "l", "-">>
      [] a = "crypto.com"  -> <<"c", "d", "c", "-">>
      [] a = "ethereum"    -> <<"e", "t", "h", "-">>
      [] OTHER             -> <<"s", "o", "l", "-">>

\* C17: two aggregation runs that receive identical provider responses give every
\* trade record of every adapter the same id, and the id starts with the
\* platform's prefix and a dash.
C17_TradeIdsStable ==
    \A i, j \in 1..Len(idRuns.runs) : \A a \in DOMAIN idRuns.resp :
        /\ idRuns.runs[i][a] = idRuns.runs[j][a]
        /\ IsPrefix(PrefixOf(a), idRuns.runs[i][a])

\* Two runs at different times over records that all carry their native ids gave
\* the same ids.
C17_Witness ==
    /\ Len(idRuns.runs) = 2
    /\ now > 0
    /\ idRuns.resp["blur"].txHash # Null
    /\ idRuns.resp["hyperliquid"].tid # Null
    /\ idRuns.runs[1] = idRuns.runs[2]
    /\ idRuns.runs[1]["blur"] = <<"b", "l", "u", "r", "-", "0", "x", "b", "-", "0">>

----------------------------------------------------------------------------
(* Properties of the signature (SpecSignature).                            *)

Signed == signing # NoSigning

\* The parameters as a mapping, without their insertion order.
ParamMap(params) ==
    [k \in {params[i][1] : i \in 1..Len(params)} |-> ParamValue(params, k)]

LeastKey(S) == CHOOSE k \in S : \A o \in S : o = k \/ LexLess(k, o)

\* key immediately followed by value, in lexicographic key order.
RECURSIVE CanonicalParams(_, _)
CanonicalParams(f, S) ==
    IF S = {} THEN <<>>
    ELSE LET k == LeastKey(S)
         IN  k \o ToDigits(f[k]) \o CanonicalParams(f, S \ {k})

\* The same parameters in every insertion order.
Reorderings(params) ==
    {q \in [1..Len(params) -> Range(params)] : Range(q) = Range(params)}

\* C18: the signed payload is method + id + apiKey + the parameters as key
\* immediately followed by value in lexicographic key order + nonce, and the
\* signature is the HMAC of that payload under the secret, the same for every
\* insertion order of the same parameters.
C18_SignatureCanonical ==
    Signed =>
        LET b == signing.body
            f == ParamMap(b.params)
            reference == b.method \o ToDigits(b.id) \o b.api_key
                            \o CanonicalParams(f, DOMAIN f) \o ToDigits(b.nonce)
        IN  /\ b.sig = hmacSign(reference, signing.config.apiSecret)
            /\ \A q \in Reorderings(b.params) :
                   signedRequest(b.method, signing.config, q, b.id, b.nonce).sig = b.sig

\* A request was signed whose two parameters were inserted against the key order.
C18_Witness ==
    /\ Signed
    /\ ObjectKeys(signing.body.params) = <<<<"p", "a", "g", "e", "_", "s", "i", "z", "e">>, <<"p", "a", "g", "e">>>>
    /\ signing.body.nonce > signing.body.id
    /\ signing.body.id > 0
    /\ signing.body.sig.hmac =
          signing.body.method \o ToDigits(signing.body.id) \o <<"k", "1">>
            \o <<"p", "a", "g", "e">> \o ToDigits(signing.body.params[2][2])
            \o <<"p", "a", "g", "e", "_", "s", "i", "z", "e">> \o ToDigits(signing.body.params[1][2])
            \o ToDigits(signing.body.nonce)

----------------------------------------------------------------------------
(* Further properties of the price oracle (SpecPriceOracle).               *)

\* Invocation c returned from the cache, without a remote request.
ReturnedFromCache(c) == call[c].st = "returned" /\ call[c].remote = 0

\* C21: a cache hit returns an entry for every requested id and no entry for an id
\* that was not requested.
C21_CacheHitReturnsRequestedSubset ==
    \A c \in Callers : ReturnedFromCache(c) => DOMAIN call[c].ret = call[c].ids

\* A cache hit on a cache that holds exactly the requested ids.
C21_Witness ==
    \E c \in Callers :
        /\ ReturnedFromCache(c)
        /\ call[c].ids = {"bitcoin", "ethereum"}
        /\ DOMAIN call[c].ret = call[c].ids

\* Invocation c rejects in this step.
Throws(c) == call[c].st # "threw" /\ call'[c].st = "threw"

\* C22: an invocation whose remote lookup answers with a non-success status rejects,
\* having issued its request, and neither its invoking step nor its rejecting step
\* changes the price cache, entries or timestamp.
C22_FailedLookupLeavesCache ==
    [][\A c \in Callers :
          /\ Throws(c) =>
                /\ call[c].st = "fetching"
                /\ call[c].remote = 1
                /\ call'[c].ret = NoPrices
                /\ priceCache' = priceCache
          /\ Invokes(c) => priceCache' = priceCache]_vars

\* A lookup failed while the cache held entries, and the cache still holds them.
C22_Witness ==
    \E c \in Callers :
        /\ call[c].st = "threw"
        /\ priceCache # Null
        /\ DOMAIN priceCache[1].prices = {"bitcoin"}
        /\ priceCache[1].timestamp = 0
        /\ now > 0

----------------------------------------------------------------------------
(* The fan-out of fetchAllPlatformData (SpecHungBranch).                   *)

Hung(p) == task[p].st = "hung"

Resolved == pc \in {"done", "rejected"}

\* C23: once fetchAllPlatformData has been called every platform's task has been
\* started; it does not resolve before every branch has fulfilled or rejected, so a
\* hung branch keeps it pending; and every branch that does not hang ends settled.
C23_FanOutAwaitsEveryBranch ==
    /\ [](pc # "init" => \A p \in PlatformSet : task[p].st # "idle")
    /\ [](Resolved => \A p \in PlatformSet : task[p].st \in Settled)
    /\ []((\E p \in PlatformSet : Hung(p)) => ~Resolved)
    /\ <>[](\A p \in PlatformSet : Hung(p) \/ task[p].st \in Settled)

\* One branch hangs, a sibling has run to its end and fulfilled with holdings, and
\* fetchAllPlatformData is still pending.
C23_Witness ==
    \E h, p \in PlatformSet :
        /\ Hung(h)
        /\ task[p].st = "fulfilled"
        /\ Len(task[p].holdings) > 0
        /\ pc = "awaiting"

----------------------------------------------------------------------------
(* The price lookup of the blur branch (Spec).                             *)

\* C24: the blur branch calls the price lookup at most once, never before both the
\* holdings fetch and the activity fetch have succeeded, and a branch that got both
\* has called it exactly once, for all the collections together.
C24_BlurPriceLookedUpOnce ==
    LET tk == task["blur"]
    IN  /\ tk.pxCalls <= 1
        /\ tk.pxCalls = 1 <=> (tk.h = "ok" /\ tk.t = "ok")
        /\ tk.px # "none" <=> tk.pxCalls = 1
        /\ tk.st = "fulfilled" /\ Len(tk.holdings) > 0 => tk.pxCalls = 1

\* The blur branch fulfilled with two collections valued by one lookup.
C24_Witness ==
    /\ task["blur"].st = "fulfilled"
    /\ Len(task["blur"].holdings) = 2
    /\ task["blur"].pxCalls = 1
    /\ task["blur"].px = "ok"

----------------------------------------------------------------------------
(* Properties of the account summary (SpecAccountSummary).                 *)

SummaryReturned == summary.st = "returned"

Total(a) == a.available + a.order + a.stake

HoldingsFor(currency) ==
    {i \in 1..Len(summary.holdings) : summary.holdings[i].asset = currency}

\* C25: every holding of the account summary carries available + on-order + staked
\* of its currency, and every currency for which that sum is positive has a holding.
C25_PositiveTotalYieldsHolding ==
    SummaryReturned =>
        \A i \in 1..Len(summary.accounts) :
            LET a == summary.accounts[i]
            IN  /\ \A j \in HoldingsFor(a.currency) :
                       summary.holdings[j].amount = Total(a)
                /\ Total(a) > 0 => HoldingsFor(a.currency) # {}

\* Two currencies with all three parts positive, each with its holding.
C25_Witness ==
    /\ SummaryReturned
    /\ Len(summary.accounts) = 2
    /\ \A i \in 1..2 :
          /\ summary.accounts[i].available > 0
          /\ summary.accounts[i].order > 0
          /\ summary.accounts[i].stake > 0
          /\ summary.holdings[i].amount = Total(summary.accounts[i])
          /\ summary.holdings[i].asset = summary.accounts[i].currency

----------------------------------------------------------------------------
(* Properties of the fiat rate (SpecFiatRate).                             *)

RateInvokes(c) == fiat.call[c].st # "fetching" /\ fiat'.call[c] # fiat.call[c]

RateCompletes(c) == fiat.call[c].st = "fetching" /\ fiat'.call[c].st # "fetching"

RateFailed(c) == fiat'.call[c].resp \in {"http", "throws", "unusable"}

\* C26: an invocation never rejects; invoked while the cache entry is younger than
\* the TTL it returns the cached rate without a request; when the provider fails or
\* answers unusable data it returns the cached rate if there is one and 1.36 if
\* not, and the cache is left as it was.
C26_RateNeverRejects ==
    [][\A c \in Callers :
          /\ fiat'.call[c].st \in {"idle", "fetching", "returned"}
          /\ (RateInvokes(c) /\ RateCacheFresh(fiat.cache, now)) =>
                (/\ fiat'.call[c].st = "returned"
                 /\ fiat'.call[c].remote = 0
                 /\ fiat'.call[c].ret = fiat.cache[1].rate
                 /\ fiat'.cache = fiat.cache)
          /\ (RateCompletes(c) /\ RateFailed(c)) =>
                (/\ fiat'.call[c].st = "returned"
                 /\ fiat'.cache = fiat.cache
                 /\ fiat'.call[c].ret =
                       IF fiat.cache = Null THEN Ratio(136, 100)
                       ELSE fiat.cache[1].rate)]_vars

\* A request failed after the cache entry had expired, and the expired rate was
\* returned; the other caller was served from the cache before.
C26_Witness ==
    \E c, d \in Callers :
        /\ fiat.call[c].st = "returned"
        /\ fiat.call[c].resp \in {"http", "throws", "unusable"}
        /\ fiat.cache # Null
        /\ now - fiat.cache[1].timestamp >= CACHE_TTL_MS
        /\ fiat.call[c].ret = fiat.cache[1].rate
        /\ fiat.call[d].st = "returned" /\ fiat.call[d].remote = 0

----------------------------------------------------------------------------
(* Properties of the solana adapter (SpecSolanaAdapter).                   *)

SolanaCalled == solana.h # "idle"

RequestsTo(to) ==
    {solana.requests[i].what : i \in {j \in 1..Len(solana.requests) :
                                         solana.requests[j].to = to}}

KeyConfigured ==
    solana.config.heliusApiKey # Null /\ solana.config.heliusApiKey[1] # <<>>

\* C27: without an enhanced key the history call has returned the empty list
\* without a request and the only query to a Solana node is getBalance on the
\* public RPC; with a key the balances and the history are asked of the enhanced API
\* and the public RPC is not used.
C27_HeliusKeyGatesHistory ==
    SolanaCalled =>
        IF KeyConfigured
        THEN /\ RequestsTo("helius") = {"balances", "transactions"}
             /\ RequestsTo("rpc") = {}
        ELSE /\ solana.t = "returned"
             /\ solana.trades = <<>>
             /\ RequestsTo("helius") = {}
             /\ RequestsTo("rpc") = {"getBalance"}

\* Without a key (an empty string) the holdings came back from the public node and
\* the history is empty.
C27_Witness ==
    /\ solana.config.heliusApiKey = Some(<<>>)
    /\ solana.h = "returned"
    /\ Len(solana.holdings) = 1
    /\ solana.t = "returned"
    /\ solana.trades = <<>>
    /\ Len(solana.requests) = 2

----------------------------------------------------------------------------
(* Connection statuses over two runs (SpecRuns).                           *)

EmptySuccess(p) ==
    task[p].st = "fulfilled" /\ task[p].holdings = <<>> /\ task[p].trades = <<>>

Configured(p) == Launch(p).st = "pending"

\* C28: the connection status of a platform changes only when a run returns, and
\* then not for a platform that fulfilled with no holdings and no trades: whatever
\* an earlier run set, "error" included, is still there after such a run.
C28_EmptySuccessKeepsStatus ==
    [][\A p \in PlatformSet :
          /\ connectionStatus'[p] # connectionStatus[p] =>
                (pc = "awaiting" /\ pc' = "done" /\ ~EmptySuccess(p))
          /\ (pc = "awaiting" /\ pc' = "done" /\ EmptySuccess(p)) =>
                connectionStatus'[p] = connectionStatus[p]]_vars

\* The second run has returned; a configured platform that the first run marked
\* "error" fulfilled empty in the second and is still "error".
C28_Witness ==
    \E p \in PlatformSet :
        /\ runs = 1
        /\ pc = "done"
        /\ Configured(p)
        /\ EmptySuccess(p)
        /\ connectionStatus[p] = "error"

----------------------------------------------------------------------------
(* Properties of the dashboard (SpecDashboard).                            *)

InFlightRefreshes == {r \in Refreshes : dash.refresh[r] = "inflight"}

\* C29: the loading flag is true exactly while some refresh is in flight.
C29_LoadingWhileRefreshInFlight ==
    dash.loading <=> InFlightRefreshes # {}

\* Two refreshes overlap and the flag is set.
C29_Witness ==
    /\ Cardinality(InFlightRefreshes) = 2
    /\ dash.loading

----------------------------------------------------------------------------
(* Properties of the manual-entries store (SpecManualEntries).             *)

\* C30: the entries list is sorted by date, latest first.
C30_EntriesSortedByDate ==
    \A i, j \in 1..Len(entries) :
        i < j => getTime(entries[i].date) >= getTime(entries[j].date)

\* Three entries of three dates, latest first, one of them edited.
C30_Witness ==
    /\ Len(entries) = 3
    /\ getTime(entries[1].date) > getTime(entries[2].date)
    /\ getTime(entries[2].date) > getTime(entries[3].date)
    /\ \E i \in 1..3 : entries[i].notes = "edited"

====
